---- MODULE Spec2Model ----
(***************************************************************************)
(* Verification model of the Dtooltrades market-intelligence pipeline.     *)
(*                                                                         *)
(* Part I  : TradingManager (src/lib/trading/trading-manager.ts)           *)
(*           session statistics, manual tradeOnce, the auto-trade polling  *)
(*           loop, and the trade executor it delegates to.                 *)
(*                                                                         *)
(* Money is counted in cents (0.35 -> 35), time in seconds (1000 ms -> 1). *)
(***************************************************************************)
EXTENDS Integers, Sequences, FiniteSets, TLC

\* ------------------------------------------------------------------------
\* Bounds of the exploration
\* ------------------------------------------------------------------------
MaxLoops == 2
MaxManual == 1
MaxTrades == 2
NumConsumers == 2
MaxSubIds == 2
MaxReqs == 5
MaxQueue == 2
MaxTicks == 10
MaxPatterns == 2
MaxScans == 2
MaxScanTicks == 6
MaxBotRuns == 2
MaxBotTrades == 2
MaxResults == 3
MaxDigits == 103

\* ------------------------------------------------------------------------
\* Program constants
\* ------------------------------------------------------------------------
Cooldown == 5
PollDelay == 1
ReqIdBase == 1000
maxRetries == 3
recoverPolls == 5
WINDOW_SIZE == 100
MinSamples == 20

DefaultConfig == [maxLoss |-> 1000, targetProfit |-> 500, stake |-> 35, duration |-> 3]
AltConfig == [maxLoss |-> 200, targetProfit |-> 250, stake |-> 100, duration |-> 5]
Configs == {DefaultConfig, AltConfig}

\* TradeExecutionResult values the executor may deliver
TradeResults ==
  { [isWin |-> TRUE, profit |-> 250, buyPrice |-> 100],
    [isWin |-> FALSE, profit |-> -100, buyPrice |-> 100] }

EntryStatuses == {"Confirmed", "Waiting", "Blocked"}
SignalOutputs == EntryStatuses \cup {"none"}

\* Result handling as the design document states it: multiplier 2.1, stake
\* capped at half of the balance (here 100.00).
SpecMartingale == [num |-> 21, den |-> 10, balance |-> 10000]

LoopIds == 1..MaxLoops
ManualIds == 1..MaxManual

VARIABLES
  mode, isAutoTrading, stats, maxLoss, targetProfit, defaultStake, tickDuration,
  sinceLastTrade, loops, inflight, ledger, sinceExec, ev

tmVars == <<mode, isAutoTrading, stats, maxLoss, targetProfit, defaultStake,
            tickDuration, sinceLastTrade, loops, inflight, ledger, sinceExec,
            ev>>

VARIABLES
  symbolToSubscriptionMap, subscriptions, subscriptionRefCount, tickCallbacks,
  activeSubscriptions, pendingRequests, reqIdCounter, cons, c2s, s2c,
  srvStream, srvNext, delivered, conn, messageQueue, wsEv

wsVars == <<symbolToSubscriptionMap, subscriptions, subscriptionRefCount,
            tickCallbacks, activeSubscriptions, pendingRequests, reqIdCounter,
            cons, c2s, s2c, srvStream, srvNext, delivered, conn,
            messageQueue, wsEv>>

VARIABLES tickWindow, patterns, signals

sgVars == <<tickWindow, patterns, signals>>

VARIABLES
  isScanning, subscriptionIds, scanResults, tickWindows, broadcast, wsm,
  scanLoops, scans, feed, sieEv

sieVars == <<isScanning, subscriptionIds, scanResults, tickWindows, broadcast,
             wsm, scanLoops, scans, feed, sieEv>>

VARIABLES buffer15, buffer25, buffer50, buffer100, lastSnapshot, digitFeed, arrived

paVars == <<buffer15, buffer25, buffer50, buffer100, lastSnapshot, digitFeed,
            arrived>>

VARIABLES
  botState, tradesThisMinute, minuteResetTimer, intervals, subscriptionId,
  botStreams, activeProposals, activeContracts, botRuns, botStarts, attempts,
  boughtThisWindow, botEv

botVars == <<botState, tradesThisMinute, minuteResetTimer, intervals,
             subscriptionId, botStreams, activeProposals, activeContracts,
             botRuns, botStarts, attempts, boughtThisWindow, botEv>>

vars == <<tmVars, wsVars, sgVars, sieVars, paVars, botVars>>

\* What each part leaves alone
tmRest == <<wsVars, sgVars, sieVars, paVars, botVars>>
wsRest == <<tmVars, sgVars, sieVars, paVars, botVars>>
sgRest == <<tmVars, wsVars, sieVars, paVars, botVars>>
sieRest == <<tmVars, wsVars, sgVars, paVars, botVars>>
paRest == <<tmVars, wsVars, sgVars, sieVars, botVars>>
botRest == <<tmVars, wsVars, sgVars, sieVars, paVars>>

Min(a, b) == IF a <= b THEN a ELSE b

\* ------------------------------------------------------------------------
\* TradingManager: pure pieces
\* ------------------------------------------------------------------------
InitStats == [trades |-> 0, wins |-> 0, losses |-> 0, profit |-> 0,
              highestWin |-> 0, worstLoss |-> 0]

TradeOnceLimitsReached_closed(p, ml, tp) == p < -ml \/ p > tp
\* tradeOnce: this.stats.profit <= -this.maxLoss || this.stats.profit >= this.targetProfit
TradeOnceLimitsReached(p, ml, tp) == p <= -ml \/ p >= tp

AutoLoopLimitsReached_never(p, ml, tp) == FALSE
\* autoLoop: the same test at the head of every iteration
AutoLoopLimitsReached(p, ml, tp) == p <= -ml \/ p >= tp

LoopCondition_forever(flag) == TRUE
\* autoLoop: while (this.isAutoTrading)
LoopCondition(flag) == flag

OrderOutstanding_ignored(count) == FALSE
\* autoLoop: this.trader.getActiveContractCount() > 0
OrderOutstanding(count) == count > 0

TradedTooRecently_ignored(age) == FALSE
\* autoLoop: Date.now() - this.lastTradeTime < 5000
TradedTooRecently(age) == age < Cooldown

SignalQualifies(sig) == sig # "none" /\ sig = "Confirmed"

updateStats_lossAddsBack(s, r) ==
  IF r.isWin
    THEN [s EXCEPT !.trades = @ + 1, !.wins = @ + 1, !.profit = @ + r.profit,
                   !.highestWin = IF r.profit > @ THEN r.profit ELSE @]
    ELSE [s EXCEPT !.trades = @ + 1, !.losses = @ + 1, !.profit = @ - r.profit,
                   !.worstLoss = IF r.buyPrice > @ THEN r.buyPrice ELSE @]
updateStats(s, r) ==
  IF r.isWin
    THEN [s EXCEPT !.trades = @ + 1, !.wins = @ + 1, !.profit = @ + r.profit,
                   !.highestWin = IF r.profit > @ THEN r.profit ELSE @]
    ELSE [s EXCEPT !.trades = @ + 1, !.losses = @ + 1, !.profit = @ - r.buyPrice,
                   !.worstLoss = IF r.buyPrice > @ THEN r.buyPrice ELSE @]

\* ------------------------------------------------------------------------
\* Trade executor (DerivRealTrader): orders in flight
\* ------------------------------------------------------------------------
getActiveContractCount == Cardinality(inflight)

LoopOrders == {o \in inflight : o.by = "loop"}
ManualOrders == {o \in inflight : o.by = "manual"}

FreeManualId == CHOOSE k \in ManualIds :
                  /\ \A o \in ManualOrders : o.id # k
                  /\ \A j \in ManualIds : (\A o \in ManualOrders : o.id # j) => k <= j

CanIssue == stats.trades + Cardinality(inflight) < MaxTrades

\* The request's payload (symbol, contractType, stake, duration, barrier) is
\* not read back by the manager; an order is known by who awaits it.
executeTrade(by, id) == inflight \cup {[by |-> by, id |-> id]}

\* ------------------------------------------------------------------------
\* Initial state (after construction)
\* ------------------------------------------------------------------------
TMInit ==
  /\ mode = "Manual"
  /\ isAutoTrading = FALSE
  /\ stats = InitStats
  /\ maxLoss = 1000
  /\ targetProfit = 500
  /\ defaultStake = 35
  /\ tickDuration = 3
  /\ sinceLastTrade = Cooldown
  /\ loops = [l \in LoopIds |-> [pc |-> "unborn", timer |-> 0]]
  /\ inflight = {}
  /\ ledger = [r \in TradeResults |-> 0]
  /\ sinceExec = Cooldown
  /\ ev = [op |-> "init", who |-> 0, sig |-> "none"]

\* ------------------------------------------------------------------------
\* Actions
\* ------------------------------------------------------------------------
setConfig(c) ==
  /\ <<maxLoss, targetProfit, defaultStake, tickDuration>>
       # <<c.maxLoss, c.targetProfit, c.stake, c.duration>>
  /\ maxLoss' = c.maxLoss
  /\ targetProfit' = c.targetProfit
  /\ defaultStake' = c.stake
  /\ tickDuration' = c.duration
  /\ ev' = [op |-> "setConfig", who |-> 0, sig |-> "none"]
  /\ UNCHANGED <<mode, isAutoTrading, stats, sinceLastTrade, loops, inflight,
                 ledger, sinceExec>>
  /\ UNCHANGED tmRest

tradeOnce(sig) ==
  /\ Cardinality(ManualOrders) < MaxManual
  /\ ev' = [op |-> "tradeOnce", who |-> 0, sig |-> sig]
  /\ IF TradeOnceLimitsReached(stats.profit, maxLoss, targetProfit) \/ sig # "Confirmed"
       THEN UNCHANGED inflight
       ELSE /\ CanIssue
            /\ inflight' = executeTrade("manual", FreeManualId)
  /\ UNCHANGED <<mode, isAutoTrading, stats, maxLoss, targetProfit, defaultStake,
                 tickDuration, sinceLastTrade, loops, ledger, sinceExec>>
  /\ UNCHANGED tmRest

stopAutoTrade ==
  /\ isAutoTrading' = FALSE
  /\ mode' = "Manual"
  /\ ev' = [op |-> "stopAutoTrade", who |-> 0, sig |-> "none"]
  /\ UNCHANGED <<stats, maxLoss, targetProfit, defaultStake, tickDuration,
                 sinceLastTrade, loops, inflight, ledger, sinceExec>>
  /\ UNCHANGED tmRest

\* One pass of the body of autoLoop, from the while test to the next await.
\* auto and md are the values of isAutoTrading and mode when the pass begins.
autoLoop(l, auto, md, sig, startOp) ==
  LET sleep == [loops EXCEPT ![l] = [pc |-> "sleep", timer |-> PollDelay]]
      keep  == /\ isAutoTrading' = auto
               /\ mode' = md
               /\ UNCHANGED inflight
  IN
  IF ~LoopCondition(auto)
    THEN /\ loops' = [loops EXCEPT ![l] = [pc |-> "done", timer |-> 0]]
         /\ ev' = [op |-> "exit", who |-> l, sig |-> "none"]
         /\ keep
    ELSE IF AutoLoopLimitsReached(stats.profit, maxLoss, targetProfit)
    THEN /\ loops' = [loops EXCEPT ![l] = [pc |-> "done", timer |-> 0]]
         /\ isAutoTrading' = FALSE
         /\ mode' = "Manual"
         /\ ev' = [op |-> startOp \o "limitStop", who |-> l, sig |-> "none"]
         /\ UNCHANGED inflight
    ELSE IF OrderOutstanding(getActiveContractCount)
    THEN /\ loops' = sleep
         /\ ev' = [op |-> startOp \o "skipInflight", who |-> l, sig |-> "none"]
         /\ keep
    ELSE IF ~SignalQualifies(sig)
    THEN /\ loops' = sleep
         /\ ev' = [op |-> startOp \o "noSignal", who |-> l, sig |-> "none"]
         /\ keep
    ELSE IF TradedTooRecently(sinceLastTrade)
    THEN /\ loops' = sleep
         /\ ev' = [op |-> startOp \o "cooldown", who |-> l, sig |-> "none"]
         /\ keep
    ELSE /\ CanIssue
         /\ loops' = [loops EXCEPT ![l] = [pc |-> "exec", timer |-> 0]]
         /\ inflight' = executeTrade("loop", l)
         /\ isAutoTrading' = auto
         /\ mode' = md
         /\ ev' = [op |-> startOp \o "order", who |-> l, sig |-> "none"]

\* A sleeping loop whose timer has expired runs its next pass.
LoopWake(l, sig) ==
  /\ loops[l].pc = "sleep"
  /\ loops[l].timer = 0
  /\ autoLoop(l, isAutoTrading, mode, sig, "")
  /\ UNCHANGED <<stats, maxLoss, targetProfit, defaultStake, tickDuration,
                 sinceLastTrade, ledger, sinceExec>>
  /\ UNCHANGED tmRest

startAutoTradeNoop ==
  /\ isAutoTrading
  /\ ev' = [op |-> "startNoop", who |-> 0, sig |-> "none"]
  /\ UNCHANGED <<mode, isAutoTrading, stats, maxLoss, targetProfit, defaultStake,
                 tickDuration, sinceLastTrade, loops, inflight, ledger, sinceExec>>
  /\ UNCHANGED tmRest

startAutoTrade(l, sig) ==
  /\ ~isAutoTrading
  /\ loops[l].pc = "unborn"
  /\ \A k \in LoopIds : k < l => loops[k].pc # "unborn"
  /\ autoLoop(l, TRUE, "Auto", sig, "start:")
  /\ UNCHANGED <<stats, maxLoss, targetProfit, defaultStake, tickDuration,
                 sinceLastTrade, ledger, sinceExec>>
  /\ UNCHANGED tmRest

\* Continuation of the awaiting caller once the executor has settled order o.
Continue(o, rejected) ==
  IF o.by = "loop"
    THEN loops' = [loops EXCEPT ![o.id] =
                     IF rejected THEN [pc |-> "dead", timer |-> 0]
                                 ELSE [pc |-> "sleep", timer |-> PollDelay]]
    ELSE UNCHANGED loops

\* execute: the executor resolves with a result
ResolveResult(o, r) ==
  /\ o \in inflight
  /\ inflight' = inflight \ {o}
  /\ sinceLastTrade' = 0
  /\ stats' = updateStats(stats, r)
  /\ ledger' = [ledger EXCEPT ![r] = @ + 1]
  /\ sinceExec' = 0
  /\ Continue(o, FALSE)
  /\ ev' = [op |-> IF r.isWin THEN "win" ELSE "loss",
            who |-> IF o.by = "loop" THEN o.id ELSE 0, sig |-> "none"]
  /\ UNCHANGED <<mode, isAutoTrading, maxLoss, targetProfit, defaultStake,
                 tickDuration>>
  /\ UNCHANGED tmRest

\* execute: the executor resolves with no result
ResolveNull(o) ==
  /\ o \in inflight
  /\ inflight' = inflight \ {o}
  /\ Continue(o, FALSE)
  /\ ev' = [op |-> "null", who |-> IF o.by = "loop" THEN o.id ELSE 0, sig |-> "none"]
  /\ UNCHANGED <<mode, isAutoTrading, stats, maxLoss, targetProfit, defaultStake,
                 tickDuration, sinceLastTrade, ledger, sinceExec>>
  /\ UNCHANGED tmRest

\* execute: the executor's promise rejects
ResolveReject(o) ==
  /\ o \in inflight
  /\ inflight' = inflight \ {o}
  /\ Continue(o, TRUE)
  /\ ev' = [op |-> "reject", who |-> IF o.by = "loop" THEN o.id ELSE 0, sig |-> "none"]
  /\ UNCHANGED <<mode, isAutoTrading, stats, maxLoss, targetProfit, defaultStake,
                 tickDuration, sinceLastTrade, ledger, sinceExec>>
  /\ UNCHANGED tmRest

\* One second passes.
Tick ==
  /\ \/ sinceLastTrade < Cooldown
     \/ \E l \in LoopIds : loops[l].pc = "sleep" /\ loops[l].timer > 0
  /\ sinceLastTrade' = Min(sinceLastTrade + 1, Cooldown)
  /\ sinceExec' = Min(sinceExec + 1, Cooldown)
  /\ loops' = [l \in LoopIds |->
                 IF loops[l].timer > 0 THEN [loops[l] EXCEPT !.timer = @ - 1]
                                       ELSE loops[l]]
  /\ ev' = [op |-> "tick", who |-> 0, sig |-> "none"]
  /\ UNCHANGED <<mode, isAutoTrading, stats, maxLoss, targetProfit, defaultStake,
                 tickDuration, inflight, ledger>>
  /\ UNCHANGED tmRest

TMNext ==
  \/ \E c \in Configs : setConfig(c)
  \/ \E s \in EntryStatuses : tradeOnce(s)
  \/ stopAutoTrade
  \/ startAutoTradeNoop
  \/ \E l \in LoopIds, s \in SignalOutputs : startAutoTrade(l, s)
  \/ \E l \in LoopIds, s \in SignalOutputs : LoopWake(l, s)
  \/ \E o \in inflight, r \in TradeResults : ResolveResult(o, r)
  \/ \E o \in inflight : ResolveNull(o)
  \/ \E o \in inflight : ResolveReject(o)
  \/ Tick


\* Fairness the event loop provides: time passes, expired timers fire, and the
\* executor settles every order it was given.
Settle(o) ==
  \/ \E r \in TradeResults : ResolveResult(o, r)
  \/ ResolveNull(o)
  \/ ResolveReject(o)

TMFairness ==
  /\ WF_tmVars(Tick)
  /\ \A l \in LoopIds : WF_tmVars(\E s \in SignalOutputs : LoopWake(l, s))
  /\ \A l \in LoopIds : WF_tmVars(\E o \in LoopOrders : o.id = l /\ Settle(o))


(***************************************************************************)
(* Part II : DerivWebSocketManager (second listing of src/unnamed/part_006)*)
(*           reference-counted tick subscriptions for one symbol, the      *)
(*           request table, message routing, and the broker's end of the   *)
(*           socket.                                                       *)
(***************************************************************************)
NoSub == 0
SubIds == 1..MaxSubIds
Consumers == 1..NumConsumers
ReqIds == (ReqIdBase + 1)..(ReqIdBase + MaxReqs)

\* delivered counts, per caller, how often the step just taken invoked that
\* caller's tick callback.
NoDeliveries == [c \in Consumers |-> 0]

World ==
  [map |-> symbolToSubscriptionMap, subs |-> subscriptions,
   ref |-> subscriptionRefCount, cbs |-> tickCallbacks,
   active |-> activeSubscriptions, pending |-> pendingRequests,
   reqId |-> reqIdCounter, out |-> c2s, cons |-> cons, dl |-> NoDeliveries,
   conn |-> conn, mq |-> messageQueue]

Commit(w) ==
  /\ symbolToSubscriptionMap' = w.map
  /\ subscriptions' = w.subs
  /\ subscriptionRefCount' = w.ref
  /\ tickCallbacks' = w.cbs
  /\ activeSubscriptions' = w.active
  /\ pendingRequests' = w.pending
  /\ reqIdCounter' = w.reqId
  /\ c2s' = w.out
  /\ cons' = w.cons
  /\ delivered' = w.dl
  /\ conn' = w.conn
  /\ messageQueue' = w.mq

\* send(): out on the socket when it is open, into messageQueue otherwise
send(w, msg) ==
  IF w.conn = "open" THEN [w EXCEPT !.out = Append(@, msg)]
  ELSE [w EXCEPT !.mq = Append(@, msg)]

\* this.send({ forget: id, req_id: this.getNextReqId() })
sendForget(w, id) ==
  send([w EXCEPT !.reqId = @ + 1], [op |-> "forget", id |-> id, req |-> 0])

Idle == [pc |-> "idle", id |-> NoSub, attempt |-> 0, req |-> 0, polls |-> 0]
Holding(id) == [pc |-> "holding", id |-> id, attempt |-> 0, req |-> 0, polls |-> 0]
Failed == [pc |-> "failed", id |-> NoSub, attempt |-> 0, req |-> 0, polls |-> 0]

\* sendAndWait once the socket is open: register the pending request, arm
\* its timeout, send the payload
register(w, c) ==
  LET r == w.cons[c].req
      w1 == [w EXCEPT !.pending = @ \cup {r}]
      w2 == send(w1, [op |-> "ticks", id |-> NoSub, req |-> r])
  IN [w2 EXCEPT !.cons[c].pc = "requesting"]

\* subscribeTicks, one attempt of the retry loop: sendAndWait({ticks, subscribe,
\* req_id}); with the socket not open the call first awaits connect()
startAttempt(w, c, attempt) ==
  LET r == w.reqId + 1
      w1 == [w EXCEPT !.reqId = r,
                      !.cons[c] = [pc |-> "connecting", id |-> NoSub,
                                   attempt |-> attempt, req |-> r, polls |-> 0]]
  IN IF w.conn = "open" THEN register(w1, c)
     ELSE [w1 EXCEPT !.conn = "connecting"]

\* subscribeTicks: an attempt failed; back off and retry, or give up with ""
attemptFailed(w, c) ==
  IF w.cons[c].attempt < maxRetries
    THEN [w EXCEPT !.cons[c] = [@ EXCEPT !.pc = "backoff", !.req = 0, !.polls = 0]]
    ELSE [w EXCEPT !.active = FALSE, !.cons[c] = Failed]

\* routeMessage, step 1: salvage the subscription id of a response
salvage(w, m) ==
  IF w.map # NoSub /\ w.map # m.sub
    THEN sendForget(w, m.sub)
    ELSE [w EXCEPT !.subs = @ \cup {m.sub}, !.map = m.sub,
                   !.ref[m.sub] = IF @ = 0 THEN 1 ELSE @]

\* routeMessage, step 2: a tick recovers a missing id or exposes a ghost stream
tickRecover(w, m) ==
  IF w.map = NoSub
    THEN [w EXCEPT !.subs = @ \cup {m.sub}, !.map = m.sub,
                   !.ref[m.sub] = IF @ = 0 THEN 1 ELSE @]
    ELSE IF w.map # m.sub THEN sendForget(w, m.sub) ELSE w

\* routeMessage, step 2 continued: callbacks.forEach(cb => cb(tickData))
notifyCallbacks(w) ==
  [w EXCEPT !.dl = [c \in Consumers |-> IF c \in w.cbs THEN @[c] + 1 ELSE @[c]]]

\* subscribeTicks: if (response.tick) callback({...})
pushInitialTick(w, c) == [w EXCEPT !.dl[c] = @ + 1]

\* subscribeTicks after a successful response
subscribed(w, c, m) ==
  IF w.map # NoSub /\ w.map # m.sub
    THEN LET w1 == sendForget(w, m.sub)
         IN [w1 EXCEPT !.ref[w.map] = @ + 1, !.active = FALSE,
                       !.cons[c] = Holding(w.map)]
    ELSE pushInitialTick(
           [w EXCEPT !.subs = @ \cup {m.sub}, !.map = m.sub, !.ref[m.sub] = 1,
                     !.active = FALSE, !.cons[c] = Holding(m.sub)], c)

\* subscribeTicks, catch block
caught(w, c, code) ==
  IF code = "AlreadySubscribed"
    THEN [w EXCEPT !.cons[c] = [@ EXCEPT !.pc = "recovering", !.req = 0, !.polls = 0]]
    ELSE attemptFailed(w, c)

\* The caller whose request r is pending, if any
Requester(w, r) == {c \in Consumers : w.cons[c].pc = "requesting" /\ w.cons[c].req = r}

routeMessage(w, m) ==
  LET w1 == IF m.sub # NoSub /\ m.err = "none" THEN salvage(w, m) ELSE w
      hit == m.req \in w1.pending
      w2 == [w1 EXCEPT !.pending = @ \ {m.req}]
      w3 == IF m.sub # NoSub THEN notifyCallbacks(tickRecover(w2, m)) ELSE w2
  IN  IF ~hit \/ Requester(w3, m.req) = {} THEN w3
      ELSE LET c == CHOOSE x \in Requester(w3, m.req) : TRUE
           IN  IF m.err # "none" THEN caught(w3, c, m.err)
               ELSE subscribed(w3, c, m)

WSInit ==
  /\ symbolToSubscriptionMap = NoSub
  /\ subscriptions = {}
  /\ subscriptionRefCount = [i \in SubIds |-> 0]
  /\ tickCallbacks = {}
  /\ activeSubscriptions = FALSE
  /\ pendingRequests = {}
  /\ reqIdCounter = ReqIdBase
  /\ c2s = <<>>
  /\ s2c = <<>>
  /\ cons = [c \in Consumers |-> Idle]
  /\ srvStream = [id |-> NoSub, req |-> 0]
  /\ srvNext = 1
  /\ delivered = NoDeliveries
  /\ conn = "closed"
  /\ messageQueue = <<>>
  /\ wsEv = [op |-> "init", who |-> 0]

HasIds(n) == reqIdCounter + n <= ReqIdBase + MaxReqs
Room == Len(c2s) < MaxQueue /\ Len(messageQueue) < MaxQueue

SubscriptionInProgress_ignored(active) == FALSE
\* subscribeTicks: this.activeSubscriptions.has(symbol)
SubscriptionInProgress(active) == active

\* subscribeTicks(symbol, callback), up to its first await or its return
subscribeTicks(c) ==
  /\ cons[c].pc \in {"idle", "failed"}
  /\ HasIds(1)
  /\ Room
  /\ LET w0 == [World EXCEPT !.cbs = @ \cup {c}]
     IN  IF w0.map # NoSub
           THEN /\ Commit([w0 EXCEPT !.ref[w0.map] = @ + 1, !.cons[c] = Holding(w0.map)])
                /\ wsEv' = [op |-> "reuse", who |-> c]
           ELSE IF SubscriptionInProgress(w0.active)
           THEN /\ Commit([w0 EXCEPT !.cons[c] = [Idle EXCEPT !.pc = "waiting"]])
                /\ wsEv' = [op |-> "wait", who |-> c]
           ELSE /\ Commit(startAttempt([w0 EXCEPT !.active = TRUE], c, 1))
                /\ wsEv' = [op |-> "request", who |-> c]
  /\ UNCHANGED <<s2c, srvStream, srvNext>>
  /\ UNCHANGED wsRest

\* the 200 ms interval of a caller waiting for a subscription in progress
WaitPoll(c) ==
  /\ cons[c].pc = "waiting"
  /\ symbolToSubscriptionMap # NoSub
  /\ Commit([World EXCEPT !.ref[symbolToSubscriptionMap] = @ + 1,
                          !.cons[c] = Holding(symbolToSubscriptionMap)])
  /\ wsEv' = [op |-> "shared", who |-> c]
  /\ UNCHANGED <<s2c, srvStream, srvNext>>
  /\ UNCHANGED wsRest

\* the 15 s timer of a waiting caller: resolve("")
WaitTimeout(c) ==
  /\ cons[c].pc = "waiting"
  /\ Commit([World EXCEPT !.cons[c] = Failed])
  /\ wsEv' = [op |-> "waitTimeout", who |-> c]
  /\ UNCHANGED <<s2c, srvStream, srvNext>>
  /\ UNCHANGED wsRest

timedOut_leak(w, r) == w
\* sendAndWait, timeout handler: this.pendingRequests.delete(req_id)
timedOut(w, r) == [w EXCEPT !.pending = @ \ {r}]

\* sendAndWait: the request's timer fires before its response
RequestTimeout(c) ==
  /\ cons[c].pc = "requesting"
  /\ cons[c].req \in pendingRequests
  /\ Commit(attemptFailed(timedOut(World, cons[c].req), c))
  /\ wsEv' = [op |-> "timeout", who |-> c]
  /\ UNCHANGED <<s2c, srvStream, srvNext>>
  /\ UNCHANGED wsRest

\* the backoff delay ends and the next attempt is sent
Retry(c) ==
  /\ cons[c].pc = "backoff"
  /\ HasIds(1)
  /\ Room
  /\ Commit(startAttempt(World, c, cons[c].attempt + 1))
  /\ wsEv' = [op |-> "retry", who |-> c]
  /\ UNCHANGED <<s2c, srvStream, srvNext>>
  /\ UNCHANGED wsRest

\* one 500 ms round of the wait for an id after AlreadySubscribed
RecoverPoll(c) ==
  /\ cons[c].pc = "recovering"
  /\ LET w == World
     IN  IF w.map # NoSub
           THEN /\ Commit([w EXCEPT !.active = FALSE, !.cons[c] = Holding(w.map)])
                /\ wsEv' = [op |-> "recovered", who |-> c]
           ELSE IF cons[c].polls + 1 < recoverPolls
           THEN /\ Commit([w EXCEPT !.cons[c].polls = @ + 1])
                /\ wsEv' = [op |-> "recoverWait", who |-> c]
           ELSE /\ Commit(attemptFailed([w EXCEPT !.map = NoSub], c))
                /\ wsEv' = [op |-> "recoverGiveUp", who |-> c]
  /\ UNCHANGED <<s2c, srvStream, srvNext>>
  /\ UNCHANGED wsRest

\* unsubscribe(subscriptionId, callback) by a caller holding the id
unsubscribe(c) ==
  /\ cons[c].pc = "holding"
  /\ HasIds(1)
  /\ Room
  /\ LET id == cons[c].id
         known == id \in subscriptions
         w0 == [World EXCEPT !.cbs = IF known THEN @ \ {c} ELSE @, !.cons[c] = Idle]
         currentRef == IF w0.ref[id] = 0 THEN 1 ELSE w0.ref[id]
     IN  IF currentRef > 1
           THEN /\ Commit([w0 EXCEPT !.ref[id] = currentRef - 1])
                /\ wsEv' = [op |-> "release", who |-> c]
           ELSE LET w1 == IF known THEN [w0 EXCEPT !.map = NoSub, !.cbs = {}] ELSE w0
                    w2 == sendForget(w1, id)
                IN  /\ Commit([w2 EXCEPT !.subs = @ \ {id}, !.ref[id] = 0])
                    /\ wsEv' = [op |-> "forget", who |-> c]
  /\ UNCHANGED <<s2c, srvStream, srvNext>>
  /\ UNCHANGED wsRest

\* ws.onmessage: the next message from the broker is routed
Deliver ==
  /\ s2c # <<>>
  /\ HasIds(2)
  /\ Room
  /\ Commit(routeMessage(World, Head(s2c)))
  /\ s2c' = Tail(s2c)
  /\ wsEv' = [op |-> IF Head(s2c).req \in pendingRequests THEN "response" ELSE "stream",
              who |-> 0]
  /\ UNCHANGED <<srvStream, srvNext>>
  /\ UNCHANGED wsRest

\* caught(w, c, code) for every caller in S, in ascending order
RECURSIVE catchAll(_, _, _)
catchAll(w, S, code) ==
  IF S = {} THEN w
  ELSE LET c == CHOOSE x \in S : \A y \in S : x <= y
       IN  catchAll(caught(w, c, code), S \ {c}, code)

\* register(w, c) for every caller in S, in the order their calls began
RECURSIVE registerAll(_, _)
registerAll(w, S) ==
  IF S = {} THEN w
  ELSE LET c == CHOOSE x \in S : \A y \in S : w.cons[x].req <= w.cons[y].req
       IN  registerAll(register(w, c), S \ {c})

AwaitingConnect == {c \in Consumers : cons[c].pc = "connecting"}

\* ws.onopen: flush messageQueue, then resume the callers awaiting connect()
Open ==
  /\ conn = "connecting"
  /\ Len(messageQueue) + Cardinality(AwaitingConnect) <= MaxQueue + 1
  /\ LET w0 == [World EXCEPT !.conn = "open", !.out = messageQueue, !.mq = <<>>]
     IN  Commit(registerAll(w0, AwaitingConnect))
  /\ wsEv' = [op |-> "open", who |-> 0]
  /\ UNCHANGED <<s2c, srvStream, srvNext>>
  /\ UNCHANGED wsRest

\* The connection attempt fails (onerror, or the 10 s timeout and onclose):
\* sendAndWait throws for the callers awaiting connect(); a new attempt follows
ConnectFail ==
  /\ conn = "connecting"
  /\ AwaitingConnect # {}
  /\ Commit(catchAll(World, AwaitingConnect, "none"))
  /\ wsEv' = [op |-> "connectFail", who |-> 0]
  /\ UNCHANGED <<s2c, srvStream, srvNext>>
  /\ UNCHANGED wsRest

\* ws.onclose on an open socket: rejectAllPendingRequests, handleReconnect.
\* What was on the wire is lost and the broker ends the connection's streams.
ConnectionLoss ==
  /\ conn = "open"
  /\ LET w0 == [World EXCEPT !.conn = "connecting", !.out = <<>>, !.pending = {}]
         S == {c \in Consumers : cons[c].pc = "requesting" /\ cons[c].req \in pendingRequests}
     IN  Commit(catchAll(w0, S, "ConnectionLoss"))
  /\ s2c' = <<>>
  /\ srvStream' = [id |-> NoSub, req |-> 0]
  /\ wsEv' = [op |-> "connectionLoss", who |-> 0]
  /\ UNCHANGED srvNext
  /\ UNCHANGED wsRest

\* The broker takes the next request off the socket
ServerReceive ==
  /\ c2s # <<>>
  /\ Len(s2c) < MaxQueue
  /\ LET m == Head(c2s)
     IN  /\ c2s' = Tail(c2s)
         /\ IF m.op = "forget"
              THEN /\ srvStream' = IF srvStream.id = m.id
                                     THEN [id |-> NoSub, req |-> 0] ELSE srvStream
                   /\ UNCHANGED <<s2c, srvNext>>
              ELSE IF srvStream.id # NoSub
              THEN /\ s2c' = Append(s2c, [req |-> m.req, sub |-> NoSub,
                                          err |-> "AlreadySubscribed"])
                   /\ UNCHANGED <<srvStream, srvNext>>
              ELSE /\ srvNext <= MaxSubIds
                   /\ srvStream' = [id |-> srvNext, req |-> m.req]
                   /\ srvNext' = srvNext + 1
                   /\ s2c' = Append(s2c, [req |-> m.req, sub |-> srvNext, err |-> "none"])
  /\ wsEv' = [op |-> "server", who |-> 0]
  /\ delivered' = NoDeliveries
  /\ UNCHANGED <<symbolToSubscriptionMap, subscriptions, subscriptionRefCount,
                 tickCallbacks, activeSubscriptions, pendingRequests, reqIdCounter,
                 cons, conn, messageQueue>>
  /\ UNCHANGED wsRest

\* The broker emits the next tick of its stream
ServerTick ==
  /\ srvStream.id # NoSub
  /\ Len(s2c) < MaxQueue
  /\ s2c' = Append(s2c, [req |-> srvStream.req, sub |-> srvStream.id, err |-> "none"])
  /\ wsEv' = [op |-> "serverTick", who |-> 0]
  /\ delivered' = NoDeliveries
  /\ UNCHANGED <<symbolToSubscriptionMap, subscriptions, subscriptionRefCount,
                 tickCallbacks, activeSubscriptions, pendingRequests, reqIdCounter,
                 c2s, cons, srvStream, srvNext, conn, messageQueue>>
  /\ UNCHANGED wsRest

WSNext ==
  \/ \E c \in Consumers : subscribeTicks(c)
  \/ \E c \in Consumers : WaitPoll(c)
  \/ \E c \in Consumers : WaitTimeout(c)
  \/ \E c \in Consumers : RequestTimeout(c)
  \/ \E c \in Consumers : Retry(c)
  \/ \E c \in Consumers : RecoverPoll(c)
  \/ \E c \in Consumers : unsubscribe(c)
  \/ Deliver
  \/ Open
  \/ ConnectFail
  \/ ConnectionLoss
  \/ ServerReceive
  \/ ServerTick


(***************************************************************************)
(* Part III : SmartPatternEngine (src/unnamed/part_005) and                *)
(*            AdaptiveStrategyManager (second listing of                   *)
(*            src/lib/trading/adaptive-strategy-manager.ts), driven by the *)
(*            tick callback of useSmartAdaptiveTrading (src/unnamed/       *)
(*            part_007).  The engine is constructed with maxTicks =        *)
(*            MaxTicks.  A strength is kept as the fraction num/den.       *)
(***************************************************************************)
Digits == {1, 3, 8}

\* Digit lists handed to updateWindow as a whole
SampleWindows == { <<3, 3, 3, 3, 1, 1, 1, 1, 5>> }

\* digits.slice(-n)
LastN(w, n) == IF Len(w) <= n THEN w ELSE SubSeq(w, Len(w) - n + 1, Len(w))

\* recent.filter(d => ...).length
CountIn(w, S) == Cardinality({i \in 1..Len(w) : w[i] \in S})

Whole(n) == [num |-> n, den |-> 1]

\* detectClustering: length of the run of the last digit at the end of the
\* window, looking at no more than the last 10 places
RECURSIVE clusterRun(_, _, _)
clusterRun(w, i, seen) ==
  IF seen = 10 \/ i < 1 \/ w[i] # w[Len(w)] THEN 0
  ELSE 1 + clusterRun(w, i - 1, seen + 1)

detectClustering(w) ==
  LET clusterCount == clusterRun(w, Len(w), 0)
  IN  IF clusterCount >= 2
        THEN << [type |-> "Clustering", strength |-> Whole(clusterCount * 20),
                 confidence |-> 60 + clusterCount * 10,
                 metadata |-> [digit |-> w[Len(w)], count |-> clusterCount]] >>
        ELSE <<>>

detectClusterRejection(w) ==
  LET lastDigit == w[Len(w)]
      appearances == CountIn(LastN(w, 20), {lastDigit})
  IN  IF appearances >= 4 /\ lastDigit # w[Len(w) - 1]
        THEN << [type |-> "ClusterRejection", strength |-> Whole(appearances * 10),
                 confidence |-> 70,
                 metadata |-> [rejectedDigit |-> w[Len(w) - 1]]] >>
        ELSE <<>>

\* The same detector without the test last4[0] !== last4[1]
detectAlternatingCycles_noDistinct(w) ==
  LET last4 == LastN(w, 4)
  IN  IF Len(last4) < 4 THEN <<>>
      ELSE IF last4[1] = last4[3] /\ last4[2] = last4[4]
        THEN << [type |-> "AlternatingCycle", strength |-> Whole(85), confidence |-> 80,
                 metadata |-> [cycle |-> <<last4[1], last4[2]>>]] >>
        ELSE <<>>

detectAlternatingCycles(w) ==
  LET last4 == LastN(w, 4)
  IN  IF Len(last4) < 4 THEN <<>>
      ELSE IF last4[1] = last4[3] /\ last4[2] = last4[4] /\ last4[1] # last4[2]
        THEN << [type |-> "AlternatingCycle", strength |-> Whole(85), confidence |-> 80,
                 metadata |-> [cycle |-> <<last4[1], last4[2]>>]] >>
        ELSE <<>>

Abs(x) == IF x < 0 THEN -x ELSE x

\* imbalance = |evenCount - n/2| / (n/2) = |2 evenCount - n| / n
detectEvenOddImbalance(w) ==
  LET recent == LastN(w, 30)
      n == Len(recent)
      evenCount == CountIn(recent, {d \in 0..9 : d % 2 = 0})
      dev == Abs(2 * evenCount - n)
  IN  IF 10 * dev >= 4 * n
        THEN << [type |-> "EvenOddImbalance", strength |-> [num |-> dev * 100, den |-> n],
                 confidence |-> 75,
                 metadata |-> [side |-> IF 2 * evenCount > n THEN "EVEN" ELSE "ODD"]] >>
        ELSE <<>>

detectExtremeCompression(w) ==
  LET recent == LastN(w, 10)
      lowCount == CountIn(recent, {0, 1})
      highCount == CountIn(recent, {8, 9})
  IN  IF lowCount >= 3
        THEN << [type |-> "ExtremeCompression", strength |-> Whole(lowCount * 20),
                 confidence |-> 80, metadata |-> [zone |-> "low", count |-> lowCount]] >>
      ELSE IF highCount >= 3
        THEN << [type |-> "ExtremeCompression", strength |-> Whole(highCount * 20),
                 confidence |-> 80, metadata |-> [zone |-> "high", count |-> highCount]] >>
        ELSE <<>>

detectMicroRepetition(w) ==
  LET last6 == LastN(w, 6)
  IN  IF Len(last6) < 6 THEN <<>>
      ELSE IF last6[1] = last6[4] /\ last6[2] = last6[5] /\ last6[3] = last6[6]
        THEN << [type |-> "MicroRepetition", strength |-> Whole(95), confidence |-> 90,
                 metadata |-> [series |-> SubSeq(last6, 1, 3)]] >>
        ELSE <<>>

\* Array.prototype.sort((a, b) => b.confidence - a.confidence): stable, descending
RECURSIVE insertByConfidence(_, _)
insertByConfidence(sorted, m) ==
  IF sorted = <<>> THEN <<m>>
  ELSE IF Head(sorted).confidence >= m.confidence
    THEN <<Head(sorted)>> \o insertByConfidence(Tail(sorted), m)
    ELSE <<m>> \o sorted

RECURSIVE sortByConfidence(_)
sortByConfidence(ms) ==
  IF ms = <<>> THEN <<>>
  ELSE insertByConfidence(sortByConfidence(SubSeq(ms, 1, Len(ms) - 1)), ms[Len(ms)])

WindowTooShort_never(w) == FALSE
\* analyze: this.tickWindow.length < 10
WindowTooShort(w) == Len(w) < 10

\* what the six detectors found, in the order analyze() pushes it
detected(w) ==
  detectClustering(w) \o detectClusterRejection(w) \o detectAlternatingCycles(w)
    \o detectEvenOddImbalance(w) \o detectExtremeCompression(w)
    \o detectMicroRepetition(w)

sortMatches_unsorted(ms) == ms
sortMatches(ms) == sortByConfidence(ms)

analyze(w) == IF WindowTooShort(w) THEN <<>> ELSE sortMatches(detected(w))

\* updateWindow: digits.slice(-this.maxTicks)
updateWindow(digits) == LastN(digits, MaxTicks)

\* ------------------------------------------------------------------------
\* AdaptiveStrategyManager
\* ------------------------------------------------------------------------
Confirms_always(confidence, threshold) == TRUE
Confirms_stricter(confidence, threshold) == confidence >= threshold + 10
\* pattern.confidence >= threshold ? "Confirmed" : "Waiting"
Confirms(confidence, threshold) == confidence >= threshold

EntryStatus(confidence, threshold) ==
  IF Confirms(confidence, threshold) THEN "Confirmed" ELSE "Waiting"

\* mapPatternToSignal: a sequence of no or one signal
mapPatternToSignal(p) ==
  CASE p.type = "ExtremeCompression" ->
         << [strategy |-> "OverUnder",
             type |-> IF p.metadata.zone = "low" THEN "DIGITOVER" ELSE "DIGITUNDER",
             barrier |-> IF p.metadata.zone = "low" THEN "2" ELSE "7",
             confidence |-> p.confidence,
             entryStatus |-> EntryStatus(p.confidence, 75)] >>
    [] p.type = "EvenOddImbalance" ->
         << [strategy |-> "EvenOdd",
             type |-> IF p.metadata.side = "EVEN" THEN "DIGITODD" ELSE "DIGITEVEN",
             barrier |-> "0",
             confidence |-> p.confidence,
             entryStatus |-> EntryStatus(p.confidence, 70)] >>
    [] p.type = "Clustering" ->
         << [strategy |-> "Matches", type |-> "DIGITMATCH",
             barrier |-> ToString(p.metadata.digit),
             confidence |-> p.confidence,
             entryStatus |-> EntryStatus(p.confidence, 75)] >>
    [] p.type = "ClusterRejection" ->
         << [strategy |-> "Differs", type |-> "DIGITDIFF",
             barrier |-> ToString(p.metadata.rejectedDigit),
             confidence |-> p.confidence,
             entryStatus |-> EntryStatus(p.confidence, 65)] >>
    [] p.type = "MicroRepetition" ->
         << [strategy |-> "Matches", type |-> "DIGITMATCH",
             barrier |-> ToString(p.metadata.series[Len(p.metadata.series)]),
             confidence |-> p.confidence,
             entryStatus |-> "Confirmed"] >>
    [] OTHER -> <<>>

RECURSIVE mapAll(_)
mapAll(ps) == IF ps = <<>> THEN <<>> ELSE mapPatternToSignal(Head(ps)) \o mapAll(Tail(ps))

\* signals.filter(s => s.strategy !== family)
RECURSIVE dropFamily(_, _)
dropFamily(ss, family) ==
  IF ss = <<>> THEN <<>>
  ELSE (IF Head(ss).strategy = family THEN <<>> ELSE <<Head(ss)>>)
         \o dropFamily(Tail(ss), family)

\* highest confidence among the signals of a family
bestOf(ss, family) ==
  LET cs == {ss[i].confidence : i \in {j \in 1..Len(ss) : ss[j].strategy = family}}
  IN  CHOOSE c \in cs : \A d \in cs : d <= c

resolveConflicts_keepAll(ss) == ss
resolveConflicts(ss) ==
  LET hasMatches == \E i \in 1..Len(ss) : ss[i].strategy = "Matches"
      hasDiffers == \E i \in 1..Len(ss) : ss[i].strategy = "Differs"
  IN  IF hasMatches /\ hasDiffers
        THEN IF bestOf(ss, "Matches") >= bestOf(ss, "Differs")
               THEN dropFamily(ss, "Differs")
               ELSE dropFamily(ss, "Matches")
        ELSE ss

getSignals(ps) == resolveConflicts(mapAll(ps))

\* PatternMatch values a caller may hand to getSignals
InputConfidences == {64, 65, 70, 74, 75, 80}

PatternInputs ==
  UNION { { [type |-> "ExtremeCompression", strength |-> Whole(60), confidence |-> c,
             metadata |-> [zone |-> z, count |-> 3]] : z \in {"low", "high"} }
          \cup { [type |-> "EvenOddImbalance", strength |-> Whole(60), confidence |-> c,
                  metadata |-> [side |-> sd]] : sd \in {"EVEN", "ODD"} }
          \cup { [type |-> "Clustering", strength |-> Whole(60), confidence |-> c,
                  metadata |-> [digit |-> 8, count |-> 3]],
                 [type |-> "ClusterRejection", strength |-> Whole(60), confidence |-> c,
                  metadata |-> [rejectedDigit |-> 1]],
                 [type |-> "MicroRepetition", strength |-> Whole(95), confidence |-> c,
                  metadata |-> [series |-> <<1, 3, 8>>]],
                 [type |-> "AlternatingCycle", strength |-> Whole(85), confidence |-> c,
                  metadata |-> [cycle |-> <<1, 8>>]] }
          : c \in InputConfidences }

SGInit ==
  /\ tickWindow = <<>>
  /\ patterns = <<>>
  /\ signals = <<>>

\* The tick callback of the hook: push the digit, updateWindow, analyze,
\* getSignals
onTick(d) ==
  /\ tickWindow' = updateWindow(Append(tickWindow, d))
  /\ patterns' = analyze(tickWindow')
  /\ signals' = getSignals(patterns')
  /\ UNCHANGED sgRest

\* The same calls with a whole digit list
loadWindow(ds) ==
  /\ tickWindow' = updateWindow(ds)
  /\ patterns' = analyze(tickWindow')
  /\ signals' = getSignals(patterns')
  /\ UNCHANGED sgRest

PENext ==
  \/ \E d \in Digits : onTick(d)
  \/ \E ds \in SampleWindows : loadWindow(ds)

\* getSignals called directly with a list of patterns, one pattern longer
\* each time
callGetSignals(p) ==
  /\ Len(patterns) < MaxPatterns
  /\ patterns' = Append(patterns, p)
  /\ signals' = getSignals(patterns')
  /\ UNCHANGED tickWindow
  /\ UNCHANGED sgRest

ASMNext == \E p \in PatternInputs : callGetSignals(p)

\* ------------------------------------------------------------------------
\* Part IV: SmartIntelligenceEngine
\*
\* Scores are kept in units of 1/10000 until they are rounded, and entropy
\* in units of 1/1000000 bit.  The web socket manager is seen from the
\* engine: a subscribeTicks call either returns at once or is answered
\* later by the broker (SubscribeAck) or given up (SubscribeFail), and a
\* forget takes effect at once.  A subscription id is written as the symbol
\* it belongs to.
\* ------------------------------------------------------------------------
Markets == <<"R_10", "R_25">>
Symbols == {Markets[i] : i \in 1..Len(Markets)}

\* The broker's tick stream of a symbol: quotes in hundredths, sent in
\* phrases of twenty
Phrases == {"dsweep", "alt", "const"}

PhraseDigits(ph) ==
  CASE ph = "dsweep" -> <<0, 0, 1, 1, 2, 2, 3, 3, 4, 4, 5, 5, 6, 6, 7, 7, 8, 8, 9, 9>>
    [] ph = "alt"    -> <<2, 7, 2, 7, 2, 7, 2, 7, 2, 7, 2, 7, 2, 7, 2, 7, 2, 7, 2, 7>>
    [] OTHER         -> <<7, 7, 7, 7, 7, 7, 7, 7, 7, 7, 7, 7, 7, 7, 7, 7, 7, 7, 7, 7>>

NoFeed == [ph |-> "none", pos |-> 0]

\* The phrase the stream is in once its next quote is sent
feedPhrase(f, ph) == IF f.pos = 0 THEN ph ELSE f.ph

nextQuote(f, ph) == 10000 + PhraseDigits(feedPhrase(f, ph))[f.pos + 1]

advance(f, ph) ==
  IF f.pos + 1 = Len(PhraseDigits(feedPhrase(f, ph))) THEN NoFeed
  ELSE [ph |-> feedPhrase(f, ph), pos |-> f.pos + 1]

\* quote.toString() drops trailing zeros of the decimals
extractLastDigit(quote) ==
  IF quote % 100 = 0 THEN (quote \div 100) % 10
  ELSE IF quote % 10 = 0 THEN (quote \div 10) % 10
  ELSE quote % 10

\* Math.log2(k) for k = 1..100, in millionths
Log2Micro == <<
  0, 1000000, 1584963, 2000000, 2321928, 2584963, 2807355, 3000000,
  3169925, 3321928, 3459432, 3584963, 3700440, 3807355, 3906891, 4000000,
  4087463, 4169925, 4247928, 4321928, 4392317, 4459432, 4523562, 4584963,
  4643856, 4700440, 4754888, 4807355, 4857981, 4906891, 4954196, 5000000,
  5044394, 5087463, 5129283, 5169925, 5209453, 5247928, 5285402, 5321928,
  5357552, 5392317, 5426265, 5459432, 5491853, 5523562, 5554589, 5584963,
  5614710, 5643856, 5672425, 5700440, 5727920, 5754888, 5781360, 5807355,
  5832890, 5857981, 5882643, 5906891, 5930737, 5954196, 5977280, 6000000,
  6022368, 6044394, 6066089, 6087463, 6108524, 6129283, 6149747, 6169925,
  6189825, 6209453, 6228819, 6247928, 6266787, 6285402, 6303781, 6321928,
  6339850, 6357552, 6375039, 6392317, 6409391, 6426265, 6442943, 6459432,
  6475733, 6491853, 6507795, 6523562, 6539159, 6554589, 6569856, 6584963,
  6599913, 6614710, 6629357, 6643856 >>

\* Math.sqrt, rounded down
Isqrt(x) ==
  LET RECURSIVE search(_, _)
      search(lo, hi) ==
        IF lo = hi THEN lo
        ELSE LET mid == (lo + hi + 1) \div 2
             IN  IF mid * mid <= x THEN search(mid, hi) ELSE search(lo, mid - 1)
  IN  search(0, 46340)

getFrequencies(window) ==
  [d \in 0..9 |-> Cardinality({i \in 1..Len(window) : window[i] = d})]

\* entropy = -sum p log2 p = log2 total - (sum count log2 count) / total
calculateEntropy(freq, total) ==
  LET RECURSIVE weighted(_)
      weighted(d) ==
        IF d > 9 THEN 0
        ELSE (IF freq[d] > 0 THEN freq[d] * Log2Micro[freq[d]] ELSE 0) + weighted(d + 1)
  IN  Log2Micro[total] - (weighted(0) \div total)

\* 100 sqrt(variance / 10) / idealFreq = 100 sqrt(V) / n, V = 10 sum count^2 - n^2
deviation(freq, n) ==
  LET RECURSIVE squares(_)
      squares(d) == IF d > 9 THEN 0 ELSE freq[d] * freq[d] + squares(d + 1)
      V == 10 * squares(0) - n * n
      r == Isqrt(V * 10000)
      rem == V * 10000 - r * r
      fine == 10000 * r + (IF r > 0 THEN (10000 * rem) \div (2 * r) ELSE 0)
  IN  fine \div n

\* The same without Math.max(0, ...)
stabilityOf_unclamped(freq, n) == 1000000 - deviation(freq, n)

stabilityOf(freq, n) ==
  IF 1000000 - deviation(freq, n) < 0 THEN 0 ELSE 1000000 - deviation(freq, n)

\* Math.round of a value in units of 1/10000
round(x) == (x + 5000) \div 10000

getScores(results) ==
  LET RECURSIVE insert(_, _)
      insert(sorted, ms) ==
        IF sorted = <<>> THEN <<ms>>
        ELSE IF ms.score > Head(sorted).score THEN <<ms>> \o sorted
        ELSE <<Head(sorted)>> \o insert(Tail(sorted), ms)
      RECURSIVE sort(_)
      sort(rs) == IF rs = <<>> THEN <<>> ELSE insert(sort(SubSeq(rs, 1, Len(rs) - 1)), rs[Len(rs)])
  IN  sort(results)

\* What the listeners are handed, and the symbol whose tick caused it
notifyListeners(e, symbol) ==
  [e EXCEPT !.bc = [by |-> symbol, scores |-> getScores(e.results)]]

TooFewSamples_never(window) == FALSE
\* if (window.length < 20) return
TooFewSamples(window) == Len(window) < MinSamples

\* scanResults.set(symbol, marketScore): a Map keeps the order of first insertion
setResult(results, ms) ==
  IF \E i \in 1..Len(results) : results[i].symbol = ms.symbol
    THEN [i \in 1..Len(results) |->
            IF results[i].symbol = ms.symbol THEN ms ELSE results[i]]
    ELSE Append(results, ms)

calculateScore(e, symbol, lastDigit) ==
  LET window == e.windows[symbol]
      n == Len(window)
  IN  IF TooFewSamples(window) THEN e
      ELSE
        LET freq == getFrequencies(window)
            stability == stabilityOf(freq, n)
            clusters == Cardinality({i \in 2..n : window[i] = window[i - 1]})
            strength == (clusters * 5000000) \div n
            patternStrength == IF strength > 1000000 THEN 1000000 ELSE strength
            entropy == calculateEntropy(freq, n)
            noiseRatio == (entropy * 100) \div 332
            score == (4 * stability + 4 * patternStrength
                        + 2 * (1000000 - noiseRatio)) \div 10
            state == IF score > 700000 THEN "Structured"
                     ELSE IF score > 400000 THEN "Transitional"
                     ELSE "Random"
            marketScore == [symbol |-> symbol, score |-> round(score), state |-> state,
                            stability |-> round(stability),
                            patternStrength |-> round(patternStrength),
                            noiseRatio |-> round(noiseRatio),
                            lastDigit |-> lastDigit]
        IN  notifyListeners([e EXCEPT !.results = setResult(@, marketScore)], symbol)

processTick(e, symbol, quote) ==
  LET lastDigit == extractLastDigit(quote)
      pushed == Append(e.windows[symbol], lastDigit)
      window == IF Len(pushed) > WINDOW_SIZE THEN Tail(pushed) ELSE pushed
  IN  calculateScore([e EXCEPT !.windows[symbol] = window], symbol, lastDigit)

\* callbacks.forEach(cb => cb(tickData)) with k callbacks of the engine
RECURSIVE deliver(_, _, _, _)
deliver(e, symbol, quote, k) ==
  IF k = 0 THEN e ELSE deliver(processTick(e, symbol, quote), symbol, quote, k - 1)

\* The engine and the manager as one value; loop is where a startScanning
\* loop stands once the step is done
NoLoop == [idx |-> 0, how |-> "none"]

Scan ==
  [scanning |-> isScanning, ids |-> subscriptionIds, results |-> scanResults,
   windows |-> tickWindows, bc |-> broadcast, ws |-> wsm, loop |-> NoLoop]

SIECommit(e) ==
  /\ isScanning' = e.scanning
  /\ subscriptionIds' = e.ids
  /\ scanResults' = e.results
  /\ tickWindows' = e.windows
  /\ broadcast' = e.bc
  /\ wsm' = e.ws

\* subscribeTicks up to its first await: "id" when it returns the existing
\* id at once, "poll" when it waits for a subscription in progress,
\* "request" when it sends the request
wsSubscribeTicks(ws, symbol) ==
  LET w == [ws EXCEPT ![symbol].cbs = @ + 1]
  IN  IF w[symbol].sub
        THEN [ws |-> [w EXCEPT ![symbol].ref = @ + 1], ret |-> "id"]
      ELSE IF w[symbol].active
        THEN [ws |-> w, ret |-> "poll"]
      ELSE [ws |-> [w EXCEPT ![symbol].active = TRUE], ret |-> "request"]

\* unsubscribe(subscriptionId) without a callback
wsUnsubscribe(ws, symbol) ==
  LET currentRef == IF ws[symbol].ref = 0 THEN 1 ELSE ws[symbol].ref
  IN  IF ~ws[symbol].sub THEN ws
      ELSE IF currentRef > 1 THEN [ws EXCEPT ![symbol].ref = currentRef - 1]
      ELSE [ws EXCEPT ![symbol] = [cbs |-> 0, sub |-> FALSE, ref |-> 0, active |-> @.active]]

\* The for loop of startScanning from market i to its next await; the
\* result carries the loop's position in field loop
RECURSIVE scanFrom(_, _)
scanFrom(e, i) ==
  IF i > Len(Markets) THEN [e EXCEPT !.loop = [idx |-> i, how |-> "done"]]
  ELSE LET r == wsSubscribeTicks(e.ws, Markets[i])
           e1 == [e EXCEPT !.ws = r.ws]
       IN  IF r.ret = "id"
             THEN scanFrom([e1 EXCEPT !.ids = @ \cup {Markets[i]}], i + 1)
             ELSE [e1 EXCEPT !.loop = [idx |-> i, how |-> r.ret]]

\* The loop goes on after subscribeTicks returned for market i
resume(e, i, subId) ==
  scanFrom(IF subId # "" THEN [e EXCEPT !.ids = @ \cup {Markets[i]}] ELSE e, i + 1)

ScanIds == 1..MaxScans

SIEInit ==
  /\ isScanning = FALSE
  /\ subscriptionIds = {}
  /\ scanResults = <<>>
  /\ tickWindows = [s \in Symbols |-> <<>>]
  /\ broadcast = [by |-> "", scores |-> <<>>]
  /\ wsm = [s \in Symbols |-> [cbs |-> 0, sub |-> FALSE, ref |-> 0, active |-> FALSE]]
  /\ scanLoops = [l \in ScanIds |-> NoLoop]
  /\ scans = 0
  /\ feed = [s \in Symbols |-> NoFeed]
  /\ sieEv = [op |-> "init", was |-> FALSE, sym |-> ""]

AlreadyScanning_ignored(scanning) == FALSE
\* if (this.isScanning) return
AlreadyScanning(scanning) == scanning

startScanning ==
  /\ sieEv' = [op |-> "startScanning", was |-> isScanning, sym |-> ""]
  /\ IF AlreadyScanning(isScanning)
       THEN UNCHANGED <<isScanning, subscriptionIds, scanResults, tickWindows,
                        broadcast, wsm, scanLoops, scans>>
       ELSE /\ scans < MaxScans
            /\ LET e == scanFrom([Scan EXCEPT !.scanning = TRUE], 1)
               IN  /\ SIECommit(e)
                   /\ scanLoops' = [scanLoops EXCEPT ![scans + 1] = e.loop]
            /\ scans' = scans + 1
  /\ UNCHANGED feed
  /\ UNCHANGED sieRest

\* The broker answers the subscribe request of loop l: the answer carries the
\* first tick, which routeMessage hands to every callback of the symbol
\* before subscribeTicks pushes it to its own callback once more
SubscribeAck(l) ==
  /\ scanLoops[l].how = "request"
  /\ LET i == scanLoops[l].idx
         s == Markets[i]
         q == nextQuote(feed[s], "dsweep")
         e0 == [Scan EXCEPT !.ws[s].sub = TRUE, !.ws[s].ref = 1]
         e1 == deliver(e0, s, q, e0.ws[s].cbs)
         e2 == processTick([e1 EXCEPT !.ws[s].ref = 1, !.ws[s].active = FALSE], s, q)
         e3 == resume(e2, i, s)
     IN  /\ SIECommit(e3)
         /\ scanLoops' = [scanLoops EXCEPT ![l] = e3.loop]
         /\ feed' = [feed EXCEPT ![s] = advance(@, "dsweep")]
         /\ sieEv' = [op |-> "subscribed", was |-> isScanning, sym |-> s]
  /\ UNCHANGED scans
  /\ UNCHANGED sieRest

\* Every attempt of loop l's subscribeTicks failed: it returns ""
SubscribeFail(l) ==
  /\ scanLoops[l].how = "request"
  /\ LET i == scanLoops[l].idx
         s == Markets[i]
         e == resume([Scan EXCEPT !.ws[s].active = FALSE], i, "")
     IN  /\ SIECommit(e)
         /\ scanLoops' = [scanLoops EXCEPT ![l] = e.loop]
         /\ sieEv' = [op |-> "subscribeFailed", was |-> isScanning, sym |-> s]
  /\ UNCHANGED <<scans, feed>>
  /\ UNCHANGED sieRest

\* The 200 ms interval of a subscribeTicks that waits for a subscription in
\* progress finds the id
PollOk(l) ==
  /\ scanLoops[l].how = "poll"
  /\ LET i == scanLoops[l].idx
         s == Markets[i]
     IN  /\ wsm[s].sub
         /\ LET e == resume([Scan EXCEPT !.ws[s].ref = @ + 1], i, s)
            IN  /\ SIECommit(e)
                /\ scanLoops' = [scanLoops EXCEPT ![l] = e.loop]
         /\ sieEv' = [op |-> "shared", was |-> isScanning, sym |-> s]
  /\ UNCHANGED <<scans, feed>>
  /\ UNCHANGED sieRest

\* Its 15 s timer resolves with ""
PollTimeout(l) ==
  /\ scanLoops[l].how = "poll"
  /\ LET i == scanLoops[l].idx
         s == Markets[i]
     IN  /\ ~wsm[s].sub
         /\ LET e == resume(Scan, i, "")
            IN  /\ SIECommit(e)
                /\ scanLoops' = [scanLoops EXCEPT ![l] = e.loop]
         /\ sieEv' = [op |-> "waitTimedOut", was |-> isScanning, sym |-> s]
  /\ UNCHANGED <<scans, feed>>
  /\ UNCHANGED sieRest

\* A tick of a subscribed symbol arrives and is routed to its callbacks
ScanTick(s) ==
  /\ wsm[s].sub
  /\ Len(tickWindows[s]) < MaxScanTicks
  /\ SIECommit(deliver(Scan, s, nextQuote(feed[s], "dsweep"), wsm[s].cbs))
  /\ feed' = [feed EXCEPT ![s] = advance(@, "dsweep")]
  /\ sieEv' = [op |-> "tick", was |-> isScanning, sym |-> s]
  /\ UNCHANGED <<scanLoops, scans>>
  /\ UNCHANGED sieRest

stopScanning ==
  /\ LET RECURSIVE release(_, _)
         release(ws, i) ==
           IF i > Len(Markets) THEN ws
           ELSE release(IF Markets[i] \in subscriptionIds
                          THEN wsUnsubscribe(ws, Markets[i]) ELSE ws, i + 1)
     IN  SIECommit([Scan EXCEPT !.ws = release(wsm, 1), !.ids = {}, !.scanning = FALSE])
  /\ sieEv' = [op |-> "stopScanning", was |-> isScanning, sym |-> ""]
  /\ UNCHANGED <<scanLoops, scans, feed>>
  /\ UNCHANGED sieRest

SIENext ==
  \/ startScanning
  \/ stopScanning
  \/ \E l \in ScanIds : SubscribeAck(l)
  \/ \E l \in ScanIds : SubscribeFail(l)
  \/ \E l \in ScanIds : PollOk(l)
  \/ \E l \in ScanIds : PollTimeout(l)
  \/ \E s \in Symbols : ScanTick(s)

\* processTick called with the next quote of the symbol's stream
feedTick(s, ph) ==
  /\ SIECommit(processTick(Scan, s, nextQuote(feed[s], ph)))
  /\ feed' = [feed EXCEPT ![s] = advance(@, ph)]
  /\ sieEv' = [op |-> "tick", was |-> isScanning, sym |-> s]
  /\ UNCHANGED <<scanLoops, scans>>
  /\ UNCHANGED sieRest

\* One market, every phrase
ScoreNext == \E ph \in Phrases : feedTick(Markets[1], ph)

\* Every market, one phrase
WindowNext == \E s \in Symbols : feedTick(s, "dsweep")

\* ------------------------------------------------------------------------
\* Part V: PowerAnalyticsEngine
\*
\* A percentage is kept as the fraction num / den until it is rounded.
\* ------------------------------------------------------------------------
EvenDigits == {0, 2, 4, 6, 8}
UnderDigits == 0..4

\* A buffer that drops the new digit when it is full
updateBuffer_dropNewest(buffer, digit, max) ==
  IF Len(buffer) >= max THEN buffer ELSE Append(buffer, digit)

\* buffer.push(digit); if (buffer.length > max) buffer.shift()
updateBuffer(buffer, digit, max) ==
  LET pushed == Append(buffer, digit)
  IN  IF Len(pushed) > max THEN Tail(pushed) ELSE pushed

\* (count / len) * 100
percent(count, len) == [num |-> 100 * count, den |-> len]

complement_same(power) == power
\* 100 - power
complement(power) == [num |-> 100 * power.den - power.num, den |-> power.den]

\* Math.round of a fraction
roundRatio(p) == (2 * p.num + p.den) \div (2 * p.den)

\* shortPower > longPower, the powers being count / length
calculateTrend(shortWindow, longWindow, S) ==
  IF Len(shortWindow) = 0 \/ Len(longWindow) = 0 THEN FALSE
  ELSE CountIn(shortWindow, S) * Len(longWindow)
         > CountIn(longWindow, S) * Len(shortWindow)

replaces_orEqual(candidate, held) == candidate >= held
\* digitPowers[i] > digitPowers[strongest], digitPowers[weakest] > digitPowers[i]
replaces(candidate, held) == candidate > held

\* The scan for (let i = 1; i <= 9; i++) over the unrounded powers, which
\* share the denominator len
extrema(digitCounts) ==
  LET RECURSIVE scan(_, _, _)
      scan(i, strongest, weakest) ==
        IF i > 9 THEN [strongest |-> strongest, weakest |-> weakest]
        ELSE scan(i + 1,
                  IF replaces(100 * digitCounts[i], 100 * digitCounts[strongest])
                    THEN i ELSE strongest,
                  IF replaces(100 * digitCounts[weakest], 100 * digitCounts[i])
                    THEN i ELSE weakest)
  IN  scan(1, 0, 0)

calculateSnapshot(b15, b25, b50, lastDigit) ==
  LET window == b25
      len == Len(window)
      digitCounts == [d \in 0..9 |-> CountIn(window, {d})]
      evenPower == percent(CountIn(window, EvenDigits), len)
      underPower == percent(CountIn(window, UnderDigits), len)
      isEvenIncreasing == calculateTrend(b15, b50, EvenDigits)
      isUnderIncreasing == calculateTrend(b15, b50, UnderDigits)
      found == extrema(digitCounts)
  IN  [lastDigit |-> lastDigit,
       evenPower |-> roundRatio(evenPower),
       oddPower |-> roundRatio(complement(evenPower)),
       underPower |-> roundRatio(underPower),
       overPower |-> roundRatio(complement(underPower)),
       digitFrequencies |-> digitCounts,
       digitPowers |-> [d \in 0..9 |-> roundRatio(percent(digitCounts[d], len))],
       strongestDigit |-> found.strongest,
       weakestDigit |-> found.weakest,
       isEvenIncreasing |-> isEvenIncreasing,
       isOddIncreasing |-> ~isEvenIncreasing,
       isUnderIncreasing |-> isUnderIncreasing,
       isOverIncreasing |-> ~isUnderIncreasing]

\* lastSnapshot = null
NoSnapshot == [lastDigit |-> -1]

PAInit ==
  /\ buffer15 = <<>>
  /\ buffer25 = <<>>
  /\ buffer50 = <<>>
  /\ buffer100 = <<>>
  /\ lastSnapshot = NoSnapshot
  /\ digitFeed = NoFeed
  /\ arrived = <<>>

\* addDigit called with the last digit of the next quote of the stream;
\* arrived is the list of all digits it was called with
addDigit(ph) ==
  /\ Len(arrived) < MaxDigits
  /\ LET digit == extractLastDigit(nextQuote(digitFeed, ph))
     IN  /\ arrived' = Append(arrived, digit)
         /\ buffer15' = updateBuffer(buffer15, digit, 15)
         /\ buffer25' = updateBuffer(buffer25, digit, 25)
         /\ buffer50' = updateBuffer(buffer50, digit, 50)
         /\ buffer100' = updateBuffer(buffer100, digit, 100)
         /\ lastSnapshot' = calculateSnapshot(buffer15', buffer25', buffer50', digit)
  /\ digitFeed' = advance(digitFeed, ph)
  /\ UNCHANGED paRest

PANext == \E ph \in Phrases : addDigit(ph)

\* ------------------------------------------------------------------------
\* Part VI: AutoBot
\*
\* Money is in cents.  A call of start() and the trading loop it launches
\* are one run; its pc names the await it is suspended at.  Maps and timers
\* are kept as the number of their entries.
\* ------------------------------------------------------------------------
BotConfig ==
  [initialStake |-> 100, balance |-> 1000, tpPercent |-> 15, slPercent |-> 25,
   useMartingale |-> TRUE, martingaleMultiplier |-> [num |-> 2, den |-> 1],
   maxTradesPerMinute |-> 1]

BotRunIds == 1..MaxBotRuns

\* What the broker reports for a sold contract bought at the stake
ContractProfit(stake, isWin) == IF isWin THEN (stake * 95) \div 100 ELSE -stake

\* Math.round(x * 100) / 100 of x = cents * num / den
roundCents(cents, num, den) == (2 * cents * num + den) \div (2 * den)

\* The bot and what it holds as one value
Bot ==
  [st |-> botState, tpm |-> tradesThisMinute, timer |-> minuteResetTimer,
   iv |-> intervals, sub |-> subscriptionId, streams |-> botStreams,
   props |-> activeProposals, contracts |-> activeContracts, runs |-> botRuns,
   bought |-> boughtThisWindow]

BotCommit(w) ==
  /\ botState' = w.st
  /\ tradesThisMinute' = w.tpm
  /\ minuteResetTimer' = w.timer
  /\ intervals' = w.iv
  /\ subscriptionId' = w.sub
  /\ botStreams' = w.streams
  /\ activeProposals' = w.props
  /\ activeContracts' = w.contracts
  /\ botRuns' = w.runs
  /\ boughtThisWindow' = w.bought

shouldStop(st) ==
  \/ st.profitLoss * 100 >= BotConfig.balance * BotConfig.tpPercent
  \/ st.profitLoss * 100 <= -(BotConfig.balance * BotConfig.slPercent)

stop(w) ==
  LET w1 == [w EXCEPT !.st.isRunning = FALSE]
      w2 == IF w1.timer THEN [w1 EXCEPT !.iv = @ - 1, !.timer = FALSE] ELSE w1
  IN  IF w2.sub # "" THEN [w2 EXCEPT !.streams = @ - 1, !.sub = ""] ELSE w2

\* this.tradesThisMinute >= this.config.maxTradesPerMinute
RateLimited(count) == count >= BotConfig.maxTradesPerMinute

\* One pass of while (this.state.isRunning) up to its first await; signal
\* tells whether analyzeAndGetSignal returns a signal
iterate(w, r, signal) ==
  IF ~w.st.isRunning THEN [w EXCEPT !.runs[r] = "done"]
  ELSE IF shouldStop(w.st) THEN [stop(w) EXCEPT !.runs[r] = "done"]
  ELSE IF RateLimited(w.tpm) THEN [w EXCEPT !.runs[r] = "delay"]
  ELSE IF ~signal THEN [w EXCEPT !.runs[r] = "delay"]
  ELSE [w EXCEPT !.runs[r] = "proposal"]

capStake_uncapped(newStake, cap) == newStake
\* Math.min(newStake, Math.round(this.config.balance * 0.5 * 100) / 100)
capStake(newStake, cap) == IF newStake < cap THEN newStake ELSE cap

\* handleTradeResult of a bot constructed with config cfg
handleTradeResult(cfg, st, isWin, profit) ==
  LET st1 == [st EXCEPT !.totalRuns = @ + 1, !.profitLoss = @ + profit]
  IN  IF isWin
        THEN [st1 EXCEPT !.wins = @ + 1,
                         !.currentStake = roundCents(cfg.initialStake, 1, 1),
                         !.consecutiveLosses = 0]
        ELSE LET st2 == [st1 EXCEPT !.losses = @ + 1, !.consecutiveLosses = @ + 1]
                 m == cfg.martingaleMultiplier
                 newStake == roundCents(st.currentStake, m.num, m.den)
                 cap == roundCents(cfg.balance, 1, 2)
             IN  IF cfg.useMartingale /\ m.num > m.den
                   THEN [st2 EXCEPT !.currentStake = capStake(newStake, cap)]
                   ELSE st2

BotInit ==
  /\ botState = [isRunning |-> FALSE, totalRuns |-> 0, wins |-> 0, losses |-> 0,
                 profitLoss |-> 0, currentStake |-> BotConfig.initialStake,
                 consecutiveLosses |-> 0, isTrading |-> FALSE]
  /\ tradesThisMinute = 0
  /\ minuteResetTimer = FALSE
  /\ intervals = 0
  /\ subscriptionId = ""
  /\ botStreams = 0
  /\ activeProposals = 0
  /\ activeContracts = 0
  /\ botRuns = [r \in BotRunIds |-> "none"]
  /\ botStarts = 0
  /\ attempts = 0
  /\ boughtThisWindow = 0
  /\ botEv = [op |-> "init", tpm |-> 0]

\* start() up to await this.fetchTickHistory(); a call on a running bot
\* returns at once and leaves no trace
callStart ==
  /\ IF botState.isRunning
       THEN UNCHANGED <<botState, tradesThisMinute, minuteResetTimer, intervals,
                        subscriptionId, botStreams, activeProposals,
                        activeContracts, botRuns, boughtThisWindow, botStarts,
                        botEv>>
       ELSE /\ botStarts < MaxBotRuns
            /\ BotCommit([Bot EXCEPT !.st.isRunning = TRUE,
                                     !.st.currentStake = roundCents(BotConfig.initialStake, 1, 1),
                                     !.iv = @ + 1, !.timer = TRUE,
                                     !.runs[botStarts + 1] = "history"])
            /\ botStarts' = botStarts + 1
            /\ botEv' = [op |-> "start", tpm |-> tradesThisMinute]
  /\ UNCHANGED attempts
  /\ UNCHANGED botRest

\* fetchTickHistory returns (it catches its own errors); subscribeTicks is
\* called
HistoryFetched(r) ==
  /\ botRuns[r] = "history"
  /\ BotCommit([Bot EXCEPT !.runs[r] = "subscribe"])
  /\ botEv' = [op |-> "history", tpm |-> tradesThisMinute]
  /\ UNCHANGED <<botStarts, attempts>>
  /\ UNCHANGED botRest

\* subscribeTicks resolves: the id is stored and runTradingLoop() runs to its
\* first await
TicksSubscribed(r, signal) ==
  /\ botRuns[r] = "subscribe"
  /\ BotCommit(iterate([Bot EXCEPT !.sub = "id", !.streams = @ + 1], r, signal))
  /\ botEv' = [op |-> "subscribed", tpm |-> tradesThisMinute]
  /\ UNCHANGED <<botStarts, attempts>>
  /\ UNCHANGED botRest

\* subscribeTicks rejects: the catch block of start()
StartFailed(r) ==
  /\ botRuns[r] = "subscribe"
  /\ LET w1 == [Bot EXCEPT !.st.isRunning = FALSE, !.runs[r] = "done"]
     IN  BotCommit(IF w1.timer THEN [w1 EXCEPT !.iv = @ - 1, !.timer = FALSE] ELSE w1)
  /\ botEv' = [op |-> "startFailed", tpm |-> tradesThisMinute]
  /\ UNCHANGED <<botStarts, attempts>>
  /\ UNCHANGED botRest

\* A delay of the loop is over: the next pass
Wake(r, signal) ==
  /\ botRuns[r] = "delay"
  /\ BotCommit(iterate(Bot, r, signal))
  /\ botEv' = [op |-> "wake", tpm |-> tradesThisMinute]
  /\ UNCHANGED <<botStarts, attempts>>
  /\ UNCHANGED botRest

\* fetchProposalWithAnalysis resolves: isTrading is set and executeTrade runs
\* to await this.api.getProposal(tradeParams)
ProposalFetched(r) ==
  /\ botRuns[r] = "proposal"
  /\ attempts < MaxBotTrades
  /\ BotCommit([Bot EXCEPT !.st.isTrading = TRUE, !.runs[r] = "getProposal"])
  /\ attempts' = attempts + 1
  /\ botEv' = [op |-> "executeTrade", tpm |-> tradesThisMinute]
  /\ UNCHANGED botStarts
  /\ UNCHANGED botRest

\* executeTrade: the proposal arrives and is stored; buyContract is called
ProposalStored(r) ==
  /\ botRuns[r] = "getProposal"
  /\ BotCommit([Bot EXCEPT !.props = @ + 1, !.runs[r] = "buy"])
  /\ botEv' = [op |-> "proposal", tpm |-> tradesThisMinute]
  /\ UNCHANGED <<botStarts, attempts>>
  /\ UNCHANGED botRest

\* executeTrade: the contract is bought and stored; monitorContract is called
ContractBought(r) ==
  /\ botRuns[r] = "buy"
  /\ BotCommit([Bot EXCEPT !.contracts = @ + 1, !.bought = @ + 1, !.runs[r] = "monitor"])
  /\ botEv' = [op |-> "buy", tpm |-> tradesThisMinute]
  /\ UNCHANGED <<botStarts, attempts>>
  /\ UNCHANGED botRest

\* The contract is reported sold: clean up, handleTradeResult,
\* tradesThisMinute++, cooldown
ContractSold(r, isWin) ==
  /\ botRuns[r] = "monitor"
  /\ LET profit == ContractProfit(botState.currentStake, isWin)
         w1 == [Bot EXCEPT !.props = @ - 1, !.contracts = @ - 1, !.st.isTrading = FALSE]
     IN  BotCommit([w1 EXCEPT !.st = handleTradeResult(BotConfig, @, isWin, profit),
                              !.tpm = @ + 1, !.runs[r] = "delay"])
  /\ botEv' = [op |-> "sold", tpm |-> tradesThisMinute]
  /\ UNCHANGED <<botStarts, attempts>>
  /\ UNCHANGED botRest

\* The catch block of the loop that stops the bot instead of waiting
catchError_fatal(w, r) == [stop(w) EXCEPT !.runs[r] = "done"]

\* catch (error) { ...; await this.delay(5000) } of runTradingLoop
catchError(w, r) == [w EXCEPT !.runs[r] = "delay"]

\* An await of the try block rejects (a request fails, or the monitoring
\* times out after 2 minutes): the catch block and its 5 s delay
TradeRejected(r) ==
  /\ botRuns[r] \in {"proposal", "getProposal", "buy", "monitor"}
  /\ BotCommit(catchError(Bot, r))
  /\ botEv' = [op |-> "rejected", tpm |-> tradesThisMinute]
  /\ UNCHANGED <<botStarts, attempts>>
  /\ UNCHANGED botRest

\* The 60 s interval fires and finds a count to reset
MinuteReset ==
  /\ intervals > 0
  /\ tradesThisMinute # 0 \/ boughtThisWindow # 0
  /\ BotCommit([Bot EXCEPT !.tpm = 0, !.bought = 0])
  /\ botEv' = [op |-> "reset", tpm |-> tradesThisMinute]
  /\ UNCHANGED <<botStarts, attempts>>
  /\ UNCHANGED botRest

\* stop(); on a bot that is stopped and holds nothing it changes nothing
callStop ==
  /\ BotCommit(stop(Bot))
  /\ botEv' = IF stop(Bot) = Bot THEN botEv ELSE [op |-> "stop", tpm |-> tradesThisMinute]
  /\ UNCHANGED <<botStarts, attempts>>
  /\ UNCHANGED botRest

\* monitorContract settles: the contract is reported sold, or the 120 s
\* timer (or the failed request) rejects
MonitorEnds(r) ==
  /\ botRuns[r] = "monitor"
  /\ \/ \E isWin \in BOOLEAN : ContractSold(r, isWin)
     \/ TradeRejected(r)

\* Timers fire: no monitorContract stays pending for ever
BotFairness == \A r \in BotRunIds : WF_botVars(MonitorEnds(r))

BotNext ==
  \/ callStart
  \/ callStop
  \/ \E r \in BotRunIds : HistoryFetched(r)
  \/ \E r \in BotRunIds, signal \in BOOLEAN : TicksSubscribed(r, signal)
  \/ \E r \in BotRunIds : StartFailed(r)
  \/ \E r \in BotRunIds, signal \in BOOLEAN : Wake(r, signal)
  \/ \E r \in BotRunIds : ProposalFetched(r)
  \/ \E r \in BotRunIds : ProposalStored(r)
  \/ \E r \in BotRunIds : ContractBought(r)
  \/ \E r \in BotRunIds, isWin \in BOOLEAN : ContractSold(r, isWin)
  \/ \E r \in BotRunIds : TradeRejected(r)
  \/ MinuteReset

\* Configurations a bot may be constructed with
StakeConfigs ==
  { [initialStake |-> i, balance |-> b, tpPercent |-> 15, slPercent |-> 25,
     useMartingale |-> u, martingaleMultiplier |-> m, maxTradesPerMinute |-> 1]
    : i \in {35, 100}, b \in {105, 1000}, u \in BOOLEAN,
      m \in {[num |-> 1, den |-> 1], [num |-> 5, den |-> 4], [num |-> 2, den |-> 1]} }

\* handleTradeResult called with the result of one more trade of a bot whose
\* config is cfg; the first call finds the stake start() has set
applyResult(cfg, isWin) ==
  /\ botState.totalRuns < MaxResults
  /\ \/ botEv.op = "init"
     \/ botEv.op = "handleTradeResult" /\ botEv.cfg = cfg
  /\ LET st == IF botEv.op = "init"
                 THEN [botState EXCEPT !.currentStake = roundCents(cfg.initialStake, 1, 1)]
                 ELSE botState
         profit == ContractProfit(st.currentStake, isWin)
     IN  /\ botState' = handleTradeResult(cfg, st, isWin, profit)
         /\ botEv' = [op |-> "handleTradeResult", tpm |-> tradesThisMinute,
                      cfg |-> cfg, isWin |-> isWin, before |-> st.currentStake]
  /\ UNCHANGED <<tradesThisMinute, minuteResetTimer, intervals, subscriptionId,
                 botStreams, activeProposals, activeContracts, botRuns, botStarts,
                 attempts, boughtThisWindow>>
  /\ UNCHANGED botRest

StakeNext == \E cfg \in StakeConfigs, isWin \in BOOLEAN : applyResult(cfg, isWin)

\* ------------------------------------------------------------------------
\* Specifications: each part runs with the other part at rest
\* ------------------------------------------------------------------------
Init == TMInit /\ WSInit /\ SGInit /\ SIEInit /\ PAInit /\ BotInit

TMSpec == Init /\ [][TMNext]_vars

TMFairSpec == Init /\ [][TMNext]_vars /\ TMFairness

WSSpec == Init /\ [][WSNext]_vars

PESpec == Init /\ [][PENext]_vars

ASMSpec == Init /\ [][ASMNext]_vars

SIESpec == Init /\ [][SIENext]_vars

ScoreSpec == Init /\ [][ScoreNext]_vars

WindowSpec == Init /\ [][WindowNext]_vars

PASpec == Init /\ [][PANext]_vars

BotSpec == Init /\ [][BotNext]_vars

BotFairSpec == Init /\ [][BotNext]_vars /\ BotFairness

StakeSpec == Init /\ [][StakeNext]_vars

\* ------------------------------------------------------------------------
\* Properties of the TradingManager
\* ------------------------------------------------------------------------
PassOps == {"exit", "limitStop", "skipInflight", "noSignal", "cooldown", "order",
            "start:limitStop", "start:skipInflight", "start:noSignal",
            "start:cooldown", "start:order"}
StartOps == {"start:limitStop", "start:skipInflight", "start:noSignal",
             "start:cooldown", "start:order"}
OrderOps == {"order", "start:order"}

LiveLoops == {l \in LoopIds : loops[l].pc \in {"sleep", "exec"}}

RECURSIVE LedgerSum(_)
LedgerSum(rs) ==
  IF rs = {} THEN 0
  ELSE LET r == CHOOSE x \in rs : TRUE
       IN  ledger[r] * (IF r.isWin THEN r.profit ELSE -(r.buyPrice))
           + LedgerSum(rs \ {r})

\* C1: at most one order started by the auto-trade loop is unresolved at any
\* time, whatever the executor's latency and however many passes run meanwhile.
C1_OneLoopOrderOutstanding == Cardinality(LoopOrders) <= 1

\* A pass of the loop ran while a loop order was outstanding and skipped.
C1_Witness == ev.op = "skipInflight" /\ Cardinality(LoopOrders) = 1

\* C2: manual tradeOnce calls and the auto loop never overlap: at most one
\* order, started by either of them, is in flight at any time.
C2_SingleWriter == Cardinality(inflight) <= 1

\* C3: SessionStats.profit is, starting from 0, the sum over all recorded
\* trades of +profit for a win and -buyPrice for a loss; nothing else moves it.
C3_ProfitIsLedgerSum ==
  stats.profit = LedgerSum(TradeResults)

\* Several trades, wins and losses among them, have been recorded.
C3_Witness ==
  /\ \E r \in TradeResults : r.isWin /\ ledger[r] > 0
  /\ \E r \in TradeResults : ~r.isWin /\ ledger[r] > 0

C5_RiskStop ==
  [][(/\ ev'.op \in PassOps
      /\ isAutoTrading \/ ev'.op \in StartOps
      /\ stats.profit <= -maxLoss \/ stats.profit >= targetProfit)
       => /\ ~isAutoTrading'
          /\ mode' = "Manual"
          /\ loops'[ev'.who].pc = "done"
          /\ inflight' = inflight]_vars

\* A running loop met a breached limit and stopped.
C5_Witness ==
  /\ ev.op = "limitStop"
  /\ stats.profit >= targetProfit
  /\ ~isAutoTrading
  /\ mode = "Manual"
  /\ loops[ev.who].pc = "done"

\* C6: stopAutoTrade leaves the manager in Manual with the flag cleared; while
\* the flag stays cleared no loop starts an order, and every loop eventually
\* ends (unless auto-trading is started again).
C6_StopObserved ==
  /\ [][ev'.op = "stopAutoTrade" => ~isAutoTrading' /\ mode' = "Manual"]_vars
  /\ [][(~isAutoTrading /\ ev'.op \notin StartOps) => LoopOrders' \subseteq LoopOrders]_vars
  /\ [][(~isAutoTrading /\ ev'.op \in PassOps \ StartOps) => loops'[ev'.who].pc = "done"]_vars
  /\ (~isAutoTrading) ~> (isAutoTrading \/ LiveLoops = {})

\* A loop that was stopped while live has observed the flag and exited.
C6_Witness == ev.op = "exit" /\ ~isAutoTrading /\ LiveLoops = {} /\ stats.trades > 0

\* C7: the loop starts an order only when at least 5 s have passed since the
\* last executed trade (manual or auto) was recorded.
C7_MinGap == [][ev'.op \in OrderOps => sinceExec >= Cooldown]_vars

\* The loop deferred a Confirmed signal because a trade was executed less
\* than 5 s ago.
C7_Witness == ev.op = "cooldown" /\ sinceExec < Cooldown /\ stats.trades >= 1

\* C8: a failed attempt of the executor is never fatal to the auto loop: the
\* loop that issued the order keeps polling and SessionStats is unchanged.
C8_FailureNotFatal ==
  [][ev'.op \in {"null", "reject"} =>
       /\ stats' = stats
       /\ (ev'.who # 0 => loops'[ev'.who].pc = "sleep")]_vars

\* C9: recording a win leaves the stake for the next order at the base stake;
\* recording a loss raises it to min(stake x multiplier, balance x 0.5).
C9_StakeProgression ==
  [][/\ ev'.op = "win" => defaultStake' = defaultStake
     /\ ev'.op = "loss" =>
          SpecMartingale.den * defaultStake' =
            Min(SpecMartingale.num * defaultStake,
                (SpecMartingale.den * SpecMartingale.balance) \div 2)]_vars

\* ------------------------------------------------------------------------
\* Properties of the subscription layer
\* ------------------------------------------------------------------------
Holders(i) == {c \in Consumers : cons[c].pc = "holding" /\ cons[c].id = i}
Quiescent == \A c \in Consumers : cons[c].pc \in {"idle", "holding", "failed"}

\* C10: all consumers share one subscription, the stored reference count of a
\* subscription equals the number of consumers holding it whenever no
\* subscribeTicks call is in progress, and unsubscribe sends the forget only
\* when no other consumer holds the subscription.
C10_RefCountExact ==
  /\ [](\A a, b \in Consumers :
          (cons[a].pc = "holding" /\ cons[b].pc = "holding") => cons[a].id = cons[b].id)
  /\ [](Quiescent => \A i \in SubIds : subscriptionRefCount[i] = Cardinality(Holders(i)))
  /\ [][wsEv'.op = "forget" =>
          \A b \in Consumers :
            ~(cons'[b].pc = "holding" /\ cons'[b].id = cons[wsEv'.who].id)]_vars

InRetryLoop ==
  {c \in Consumers : cons[c].pc \in {"connecting", "requesting", "backoff", "recovering"}}

\* C11: at most one subscription id is tracked for the symbol; a subscribeTicks
\* call that finds a subscription in progress sends nothing, so at most one
\* caller is ever inside the request/retry loop; and a message carrying a
\* stream id other than the tracked one makes the manager send a forget of it.
C11_OneSubscriptionPerSymbol ==
  /\ [](Cardinality(subscriptions) <= 1)
  /\ [](Cardinality(InRetryLoop) <= 1)
  /\ [][wsEv'.op = "wait" => c2s' = c2s /\ messageQueue' = messageQueue]_vars
  /\ [][(/\ wsEv'.op \in {"response", "stream"}
         /\ Head(s2c).sub # NoSub
         /\ symbolToSubscriptionMap # NoSub
         /\ symbolToSubscriptionMap # Head(s2c).sub)
          => \E i \in (Len(c2s) + 1)..Len(c2s') :
               c2s'[i].op = "forget" /\ c2s'[i].id = Head(s2c).sub]_vars

\* A message carrying a ghost stream id was routed while another id was tracked,
\* and the last message sent is the forget of that ghost id.
C11_Witness ==
  /\ wsEv.op \in {"response", "stream"}
  /\ symbolToSubscriptionMap # NoSub
  /\ c2s # <<>>
  /\ c2s[Len(c2s)].op = "forget"
  /\ c2s[Len(c2s)].id # symbolToSubscriptionMap

\* C12: every message from the socket that carries a tick, the subscribe
\* acknowledgement included, is handed to each callback registered when it
\* arrives exactly once, and to no other, in the step that routes it (so in
\* arrival order, one message at a time).
C12_EachTickOnce ==
  [][(wsEv'.op \in {"response", "stream"} /\ Head(s2c).sub # NoSub)
       => \A c \in Consumers :
            delivered'[c] = IF c \in tickCallbacks THEN 1 ELSE 0]_vars

Unsettled == {c \in Consumers : cons[c].pc = "requesting"}

\* C13: a sendAndWait request is in the pending table exactly while it is
\* unsettled; it settles once, by its response (resolved, or rejected when the
\* response is an error), by its timeout or by connection loss, and its entry
\* is gone afterwards; a message whose req_id is not pending settles nothing.
C13_SettlesOnce ==
  /\ [](\A c \in Unsettled : cons[c].req \in pendingRequests)
  /\ [](\A r \in pendingRequests : Cardinality({c \in Unsettled : cons[c].req = r}) = 1)
  /\ [][\A c \in Unsettled :
          (cons'[c].pc # "requesting" \/ cons'[c].req # cons[c].req)
            => /\ cons[c].req \notin pendingRequests'
               /\ \/ wsEv' = [op |-> "timeout", who |-> c]
                  \/ wsEv'.op = "connectionLoss"
                  \/ /\ wsEv'.op = "response"
                     /\ Head(s2c).req = cons[c].req
                     /\ (Head(s2c).err = "none") <=> (cons'[c].pc = "holding")]_vars
  /\ [][wsEv'.op = "stream" => cons' = cons /\ pendingRequests' = pendingRequests]_vars

\* A request has timed out and its response, arriving late, is next on the
\* socket.
C13_Witness ==
  /\ wsEv.op = "timeout"
  /\ s2c # <<>>
  /\ Head(s2c).req \notin pendingRequests
  /\ Head(s2c).req = reqIdCounter

\* ------------------------------------------------------------------------
\* Properties of the strategy manager and the pattern engine
\* ------------------------------------------------------------------------
Produced == mapAll(patterns)
ProducedOf(family) == {i \in 1..Len(Produced) : Produced[i].strategy = family}
StrategyOf(sig) == sig.strategy

\* The family that loses when both Matches and Differs are produced
Loser ==
  IF \E i \in ProducedOf("Matches") : \A j \in ProducedOf("Differs") :
       Produced[i].confidence >= Produced[j].confidence
    THEN "Differs" ELSE "Matches"

ConfirmThreshold(strategy) ==
  CASE strategy = "OverUnder" -> 75
    [] strategy = "EvenOdd" -> 70
    [] strategy = "Matches" -> 75
    [] strategy = "Differs" -> 65

\* C15: every returned signal with entryStatus Confirmed has confidence at
\* least the confirm threshold of its strategy (OverUnder 75, EvenOdd 70,
\* Matches 75, Differs 65).
C15_ConfirmedMeetsThreshold ==
  \A i \in 1..Len(signals) :
    signals[i].entryStatus = "Confirmed"
      => signals[i].confidence >= ConfirmThreshold(signals[i].strategy)

PatternThreshold(type) ==
  CASE type = "ExtremeCompression" -> 75
    [] type = "EvenOddImbalance" -> 70
    [] type = "Clustering" -> 75
    [] type = "ClusterRejection" -> 65

\* C16: for an ExtremeCompression, EvenOddImbalance, Clustering or
\* ClusterRejection pattern the derived signal is Confirmed if the pattern's
\* confidence is at least the threshold (75, 70, 75, 65) and Waiting otherwise.
C16_StatusFromThreshold ==
  /\ \A i \in 1..Len(patterns) :
       patterns[i].type \in {"ExtremeCompression", "EvenOddImbalance",
                             "Clustering", "ClusterRejection"}
         => /\ Len(mapPatternToSignal(patterns[i])) = 1
            /\ mapPatternToSignal(patterns[i])[1].entryStatus =
                 IF patterns[i].confidence >= PatternThreshold(patterns[i].type)
                   THEN "Confirmed" ELSE "Waiting"
  /\ \A i \in 1..Len(signals) :
       signals[i].entryStatus \in {"Confirmed", "Waiting"}
  /\ \A i \in 1..Len(signals) :
       signals[i].strategy \in {"OverUnder", "EvenOdd", "Differs"}
         => (signals[i].entryStatus = "Confirmed"
               <=> signals[i].confidence >= ConfirmThreshold(signals[i].strategy))

\* OverUnder with confidence 80 came out Confirmed and with 74 Waiting.
C16_Witness ==
  /\ Len(signals) = 2
  /\ signals[1].strategy = "OverUnder" /\ signals[2].strategy = "OverUnder"
  /\ signals[1].confidence = 80 /\ signals[1].entryStatus = "Confirmed"
  /\ signals[2].confidence = 74 /\ signals[2].entryStatus = "Waiting"

\* C17: whenever the window holds fewer than 10 digits, analyze() returns the
\* empty list, whatever the digits are.
C17_ShortWindowEmpty == Len(tickWindow) < 10 => patterns = <<>>

\* A window of nine digits in which a detector's condition holds (three low
\* digits) was analysed.
C17_Witness ==
  /\ Len(tickWindow) = 9
  /\ detectExtremeCompression(tickWindow) # <<>>
  /\ patterns = <<>>

PreviousDigit == tickWindow[Len(tickWindow) - 1]

RejectionCondition ==
  /\ Len(tickWindow) >= 2
  /\ CountIn(LastN(tickWindow, 20), {PreviousDigit}) >= 4
  /\ tickWindow[Len(tickWindow)] # PreviousDigit

\* C18: analyze() reports ClusterRejection, with rejectedDigit the
\* second-to-last digit, exactly when the second-to-last digit appears at
\* least 4 times in the last 20 samples and the most recent digit differs
\* from it (as for 3,3,3,3,1,1,1,1,5 with rejectedDigit 1).
C18_RejectionOfPreviousDigit ==
  RejectionCondition <=>
    \E i \in 1..Len(patterns) :
      /\ patterns[i].type = "ClusterRejection"
      /\ patterns[i].metadata.rejectedDigit = PreviousDigit

InRange(x) == 0 <= x.num /\ x.num <= 100 * x.den

\* C19: every PatternMatch returned by analyze() has strength and confidence
\* within 0..100.
C19_ScoresInRange ==
  \A i \in 1..Len(patterns) :
    /\ InRange(patterns[i].strength)
    /\ 0 <= patterns[i].confidence /\ patterns[i].confidence <= 100

DetectorResults ==
  { detectClustering(tickWindow), detectClusterRejection(tickWindow),
    detectAlternatingCycles(tickWindow), detectEvenOddImbalance(tickWindow),
    detectExtremeCompression(tickWindow), detectMicroRepetition(tickWindow) }

\* C20: for a window of at least 10 digits analyze() returns the match of
\* every detector whose condition holds and nothing else, at most one match
\* per type and so at most six, in order of non-increasing confidence.
C20_AllMatchesSorted ==
  Len(tickWindow) >= 10 =>
    /\ \A r \in DetectorResults : r # <<>> => \E i \in 1..Len(patterns) : patterns[i] = r[1]
    /\ \A i \in 1..Len(patterns) : <<patterns[i]>> \in DetectorResults
    /\ \A i, j \in 1..Len(patterns) : i < j => patterns[i].type # patterns[j].type
    /\ Len(patterns) <= 6
    /\ \A i, j \in 1..Len(patterns) :
         i < j => patterns[i].confidence >= patterns[j].confidence

\* Four detectors fired on one window and their matches had to be reordered.
C20_Witness ==
  /\ Len(patterns) >= 4
  /\ patterns # detected(tickWindow)

\* The last four digits of the window are a b a b
EndsABAB(a, b) ==
  LET n == Len(tickWindow)
  IN  /\ n >= 4
      /\ tickWindow[n - 3] = a /\ tickWindow[n - 2] = b
      /\ tickWindow[n - 1] = a /\ tickWindow[n] = b

ReportsCycle(a, b) ==
  \E i \in 1..Len(patterns) :
    /\ patterns[i].type = "AlternatingCycle"
    /\ patterns[i].metadata.cycle = <<a, b>>

\* C21: for a window of at least 10 digits analyze() reports an
\* AlternatingCycle match with cycle = [A,B] if and only if the last four
\* digits are A B A B with A # B.
C21_CycleIffABAB ==
  Len(tickWindow) >= 10 =>
    \A a, b \in 0..9 : ReportsCycle(a, b) <=> (EndsABAB(a, b) /\ a # b)

C21_Witness ==
  /\ Len(tickWindow) >= 10
  /\ EndsABAB(3, 8)
  /\ ReportsCycle(3, 8)

\* C22: once stopScanning has completed and until scanning is started
\* again, no stream is subscribed and no callback of the engine is left with
\* the manager (so no tick is processed or broadcast), getScores() returns
\* nothing, and every digit window is empty.
C22_StopClears ==
  ~isScanning =>
    /\ \A s \in Symbols : ~wsm[s].sub /\ wsm[s].cbs = 0
    /\ getScores(scanResults) = <<>>
    /\ \A s \in Symbols : tickWindows[s] = <<>>

\* C23: a call of startScanning while isScanning is set changes nothing in
\* the engine and nothing in the manager: no callback is registered and no
\* subscribe request is started.
C23_StartWhileScanningIsNoop ==
  [][(sieEv'.op = "startScanning" /\ sieEv'.was) =>
       UNCHANGED <<isScanning, subscriptionIds, scanResults, tickWindows,
                   broadcast, wsm, scanLoops>>]_vars

C23_Witness ==
  /\ sieEv.op = "startScanning"
  /\ sieEv.was
  /\ \E l \in ScanIds : scanLoops[l].how = "request"

HasScore(s) == \E i \in 1..Len(scanResults) : scanResults[i].symbol = s

WindowsBounded ==
  \A s \in Symbols :
    /\ Len(tickWindows[s]) <= WINDOW_SIZE
    /\ HasScore(s) => Len(tickWindows[s]) >= MinSamples
    /\ broadcast.by = s => Len(tickWindows[s]) >= MinSamples

\* C24: every instrument's window holds at most 100 digits and changes only
\* on a tick of that instrument, and an instrument has a MarketScore, or
\* has caused a broadcast, only if its window holds at least 20 digits.
C24_OwnBoundedWindows ==
  /\ []WindowsBounded
  /\ [][\A s \in Symbols : tickWindows'[s] # tickWindows[s] => sieEv'.sym = s]_vars

C24_Witness ==
  /\ Len(tickWindows["R_10"]) = WINDOW_SIZE
  /\ HasScore("R_10")
  /\ sieEv.sym = "R_10"
  /\ Len(tickWindows["R_25"]) = MinSamples - 1
  /\ ~HasScore("R_25")

\* C25: in every emitted MarketScore the label agrees with the emitted
\* score: Structured iff score > 70, Transitional iff 40 < score <= 70,
\* Random iff score <= 40.
C25_LabelMatchesScore ==
  \A i \in 1..Len(scanResults) :
    LET ms == scanResults[i]
    IN  /\ ms.state = "Structured" <=> ms.score > 70
        /\ ms.state = "Transitional" <=> (40 < ms.score /\ ms.score <= 70)
        /\ ms.state = "Random" <=> ms.score <= 40

\* C26: for every window of 20 to 100 digits the emitted score lies in
\* 0..100.
C26_ScoreInRange ==
  \A i \in 1..Len(scanResults) :
    /\ Len(tickWindows[scanResults[i].symbol]) \in MinSamples..WINDOW_SIZE
    /\ scanResults[i].score \in 0..100

C26_Witness ==
  /\ Len(tickWindows["R_10"]) = WINDOW_SIZE
  /\ \E i \in 1..Len(scanResults) :
       scanResults[i].symbol = "R_10" /\ scanResults[i].state = "Structured"

\* C27: in every snapshot evenPower + oddPower and underPower + overPower
\* differ from 100 by at most 1.
C27_PowersSumTo100 ==
  lastSnapshot # NoSnapshot =>
    /\ lastSnapshot.evenPower + lastSnapshot.oddPower \in 99..101
    /\ lastSnapshot.underPower + lastSnapshot.overPower \in 99..101

C27_Witness ==
  /\ lastSnapshot # NoSnapshot
  /\ lastSnapshot.underPower + lastSnapshot.overPower = 101
  /\ lastSnapshot.evenPower + lastSnapshot.oddPower = 100

\* The rate of the digits of S is strictly greater over the 15-digit buffer
\* than over the 50-digit buffer
RateHigher(S) ==
  CountIn(buffer15, S) * Len(buffer50) > CountIn(buffer50, S) * Len(buffer15)

\* C28: each of the four trend flags is true if and only if the rate of its
\* category over the 15-digit buffer is strictly greater than its rate over
\* the 50-digit buffer.
C28_TrendFlags ==
  lastSnapshot # NoSnapshot =>
    /\ lastSnapshot.isEvenIncreasing <=> RateHigher(EvenDigits)
    /\ lastSnapshot.isOddIncreasing <=> RateHigher((0..9) \ EvenDigits)
    /\ lastSnapshot.isUnderIncreasing <=> RateHigher(UnderDigits)
    /\ lastSnapshot.isOverIncreasing <=> RateHigher((0..9) \ UnderDigits)

\* The lowest digit whose value in powers is v
FirstWith(powers, v) == CHOOSE i \in 0..9 : powers[i] = v /\ \A j \in 0..(i - 1) : powers[j] # v

HighestOf(powers) == CHOOSE v \in {powers[i] : i \in 0..9} : \A i \in 0..9 : powers[i] <= v

LowestOf(powers) == CHOOSE v \in {powers[i] : i \in 0..9} : \A i \in 0..9 : powers[i] >= v

\* C29: strongestDigit is the lowest digit whose digitPowers value is the
\* greatest of the snapshot and weakestDigit the lowest digit whose value is
\* the least.
C29_FirstExtrema ==
  lastSnapshot # NoSnapshot =>
    /\ lastSnapshot.strongestDigit
         = FirstWith(lastSnapshot.digitPowers, HighestOf(lastSnapshot.digitPowers))
    /\ lastSnapshot.weakestDigit
         = FirstWith(lastSnapshot.digitPowers, LowestOf(lastSnapshot.digitPowers))

C29_Witness ==
  /\ lastSnapshot # NoSnapshot
  /\ lastSnapshot.strongestDigit = 2
  /\ lastSnapshot.digitPowers[7] = lastSnapshot.digitPowers[2]
  /\ lastSnapshot.weakestDigit = 0
  /\ lastSnapshot.digitPowers[1] = lastSnapshot.digitPowers[0]

\* C30: between two resets of the per-minute counter the bot buys at most
\* maxTradesPerMinute contracts, and it buys none while tradesThisMinute is
\* at or above maxTradesPerMinute.
C30_RateLimit ==
  /\ boughtThisWindow <= BotConfig.maxTradesPerMinute
  /\ botEv.op = "buy" => botEv.tpm < BotConfig.maxTradesPerMinute

\* C31: no run stays at monitorContract for ever; when monitoring
\* rejects, the loop goes to its 5 s delay with isRunning as it was, and the
\* pass after a delay of a running bot that is neither at a stop condition
\* nor rate limited goes on to the next trade when there is a signal.
C31_MonitorTimeoutRetryable ==
  /\ \A r \in BotRunIds : []<>(botRuns[r] # "monitor")
  /\ [][\A r \in BotRunIds :
          (botRuns[r] = "monitor" /\ botEv'.op = "rejected" /\ botRuns'[r] # "monitor")
            => /\ botRuns'[r] = "delay"
               /\ botState'.isRunning = botState.isRunning]_vars
  /\ [][\A r \in BotRunIds :
          (/\ botRuns[r] = "delay" /\ botRuns'[r] # "delay"
           /\ botState.isRunning /\ ~shouldStop(botState)
           /\ ~RateLimited(tradesThisMinute))
            => botRuns'[r] = "proposal"]_vars

\* A trade is attempted after a contract was bought and its monitoring
\* rejected: the contract of the failed trade is still registered, no trade
\* has completed and no run is monitoring.
C31_Witness ==
  /\ botEv.op = "executeTrade"
  /\ botState.isRunning
  /\ activeContracts = 1
  /\ botState.totalRuns = 0
  /\ \A r \in BotRunIds : botRuns[r] # "monitor"

\* Runs whose executeTrade holds a stored proposal / a stored contract
HoldingProposal == {r \in BotRunIds : botRuns[r] \in {"buy", "monitor"}}
HoldingContract == {r \in BotRunIds : botRuns[r] = "monitor"}

\* C32: activeProposals and activeContracts hold entries only of trades whose
\* executeTrade is still running: nothing of a trade that has returned or
\* rejected remains.
C32_NoLeakedEntries ==
  /\ activeProposals = Cardinality(HoldingProposal)
  /\ activeContracts = Cardinality(HoldingContract)

\* C33: at most one auto-trade loop is live (sleeping between passes or
\* awaiting its order) at any time.
C33_OneLiveLoop == Cardinality(LiveLoops) <= 1

\* No startScanning call is suspended at an await
ScanCallsCompleted == \A l \in ScanIds : scanLoops[l].how \in {"none", "done"}

\* C34: when every startScanning and stopScanning call has completed and
\* isScanning is false, subscriptionIds is empty and no tick subscription of
\* the engine is active.
C34_StoppedHoldsNothing ==
  (~isScanning /\ ScanCallsCompleted)
    => /\ subscriptionIds = {}
       /\ \A s \in Symbols : ~wsm[s].sub

\* Every start() has returned and every trading loop has ended
BotCallsCompleted == \A r \in BotRunIds : botRuns[r] \in {"none", "done"}

\* C35: when every start() and stop() has completed, the loops have ended
\* and isRunning is false, the bot holds no tick subscription and no
\* per-minute timer.
C35_StoppedHoldsNothing ==
  (~botState.isRunning /\ BotCallsCompleted)
    => /\ subscriptionId = ""
       /\ botStreams = 0
       /\ ~minuteResetTimer
       /\ intervals = 0

\* Runs suspended inside executeTrade
InExecuteTrade == {r \in BotRunIds : botRuns[r] \in {"getProposal", "buy", "monitor"}}

\* C36: isTrading is true only while some executeTrade call is in flight.
C36_TradingOnlyInFlight == botState.isTrading => InExecuteTrade # {}

\* Callers whose last subscribeTicks call returned the empty id
ReturnedEmpty == {c \in Consumers : cons[c].pc = "failed"}

\* C37: no tick is delivered to the callback of a caller whose subscribeTicks
\* call returned the empty id.
C37_FailedGetsNoTicks == \A c \in ReturnedEmpty : delivered[c] = 0

SignalFamilies == {signals[i].strategy : i \in 1..Len(signals)}

\* C38: every signal the hook gets from getSignals(analyze()) is Confirmed.
C38_PipelineConfirmed ==
  \A i \in 1..Len(signals) : signals[i].entryStatus = "Confirmed"

\* A window whose patterns give signals of three families, among them the
\* one with the least margin over its threshold.
C38_Witness ==
  /\ Len(tickWindow) = MaxTicks
  /\ {"Differs", "EvenOdd", "OverUnder"} \subseteq SignalFamilies
  /\ \E i \in 1..Len(patterns) : patterns[i].type = "ClusterRejection"

\* n is x = cents * num / den rounded to the nearest cent, halves upwards
IsRounded(n, cents, num, den) ==
  /\ (2 * n - 1) * den <= 2 * cents * num
  /\ 2 * cents * num < (2 * n + 1) * den

\* n is the smaller of a and b
IsMin(n, a, b) == n <= a /\ n <= b /\ n \in {a, b}

Primary == LastN(arrived, 25)

\* C40: the four buffers are the last 15, 25, 50 and 100 digits addDigit
\* was called with (all of them while there are fewer), in arrival order,
\* and the snapshot's counts and percentages are those of the last 25.
C40_BuffersHoldRecent ==
  /\ buffer15 = LastN(arrived, 15)
  /\ buffer25 = LastN(arrived, 25)
  /\ buffer50 = LastN(arrived, 50)
  /\ buffer100 = LastN(arrived, 100)
  /\ arrived # <<>> =>
       /\ lastSnapshot.lastDigit = arrived[Len(arrived)]
       /\ lastSnapshot.digitFrequencies = [d \in 0..9 |-> CountIn(Primary, {d})]
       /\ lastSnapshot.evenPower
            = roundRatio(percent(CountIn(Primary, EvenDigits), Len(Primary)))
       /\ lastSnapshot.underPower
            = roundRatio(percent(CountIn(Primary, UnderDigits), Len(Primary)))

\* More than 100 digits have arrived and the largest buffer has let go of
\* the oldest ones.
C40_Witness ==
  /\ Len(arrived) > 100
  /\ Len(buffer100) = 100
  /\ Head(buffer100) # arrived[1]
  /\ Head(buffer15) # Head(buffer25)

====
